---- MODULE Spec2Model ----
(***************************************************************************)
(* A model of the atopile analyzer's Evaluator                             *)
(* (crates/atopile_analyzer/src/evaluator.rs): the instance store, the     *)
(* diagnostics reporter, instance cloning, connection resolution, block    *)
(* ordering, import evaluation and the evaluation driver.                  *)
(*                                                                         *)
(* Maps (HashMap) are functions with a finite domain, vectors are          *)
(* sequences, Option<T> is the value None or a T.  A path (PathBuf) is the *)
(* sequence of its components, an absolute path starting with "/".         *)
(* A source file (AtopileSource) is its path and its statement tree.       *)
(***************************************************************************)
EXTENDS Integers, Sequences, FiniteSets, TLC

VARIABLES
    files,        \* Evaluator.files: path -> statement tree
    instances,    \* Evaluator.state.instances: InstanceRef -> Instance
    diagnostics,  \* Evaluator.reporter.diagnostics: path -> sequence of diagnostics
    disk,         \* the file system: path -> statement tree of the file's text
    registered,   \* the host's view: the paths set by set_source and not removed since
    op,           \* the operation that produced the state, with its inputs
    instance,     \* evaluate_block: the root instance checked out of the store
    file_scope,   \* evaluate_block: FileScope.symbols of the file being evaluated
    declarations, \* sort_blocks: the declarations handed to it
    sorted,       \* sort_blocks: the order it returned
    to_evaluate,  \* evaluate: the files of files_to_evaluate not yet evaluated
    frames,       \* the activations of evaluate_inner, the innermost last
    log,          \* the activations of the pass so far, with what each reported
    last_diagnostics, \* Backend.last_diagnostics: the files of the last publication
    published     \* the client: path -> the diagnostics last published for it

vars == <<files, instances, diagnostics, disk, registered, op, instance, file_scope,
          declarations, sorted, to_evaluate, frames, log, last_diagnostics, published>>

(***************************************************************************)
(* Generic helpers.                                                        *)
(***************************************************************************)
None == "None"

EmptyMap == [x \in {} |-> x]

Insert(m, k, v) == [x \in DOMAIN m \cup {k} |-> IF x = k THEN v ELSE m[x]]

Remove(m, k) == [x \in DOMAIN m \ {k} |-> m[x]]

Range(s) == {s[i] : i \in DOMAIN s}

\* slice.starts_with(prefix)
starts_with(s, prefix) ==
    /\ Len(prefix) <= Len(s)
    /\ SubSeq(s, 1, Len(prefix)) = prefix

\* slice[n..]
DropFirst(s, n) == SubSeq(s, n + 1, Len(s))

Min(a, b) == IF a <= b THEN a ELSE b

\* Body applied to value, with value computed once.
Bind(value, Body(_)) == CHOOSE result \in {Body(v) : v \in {value}} : TRUE

\* The permutations of a finite set, as sequences.
RECURSIVE Perms(_)
Perms(S) ==
    IF S = {} THEN {<<>>}
    ELSE UNION {{<<x>> \o p : p \in Perms(S \ {x})} : x \in S}

(***************************************************************************)
(* Symbols.  Symbol wraps a String; the only place that orders symbols is  *)
(* connect, which sorts children by String::cmp (byte-wise lexicographic). *)
(* SymbolOrder lists the symbols of the model in that order.               *)
(***************************************************************************)
SymbolOrder == <<"1", "2", "A", "B", "C", "IF", "K", "M", "MOD", "N", "P", "T", "U",
                 "X", "Y", "a", "b", "c", "i", "if", "j", "p", "q", "s", "t", "v", "x",
                 "y", "z">>

Rank(sym) == CHOOSE i \in DOMAIN SymbolOrder : SymbolOrder[i] = sym

\* Vec::sort_by(|a, b| a.0.cmp(b.0)) on the keys of a children map.
RECURSIVE SortedKeys(_)
SortedKeys(S) ==
    IF S = {} THEN <<>>
    ELSE LET least == CHOOSE x \in S : \A y \in S : Rank(x) <= Rank(y)
         IN  <<least>> \o SortedKeys(S \ {least})

(***************************************************************************)
(* Data model.                                                             *)
(***************************************************************************)
ModuleRef(source_path, module_name) ==
    [source_path |-> source_path, module_name |-> module_name]

\* ModuleRef::port() and ModuleRef::pin(): an empty path and an empty name.
ModuleRefPort == [source_path |-> <<>>, module_name |-> ""]

ModuleRefPin == [source_path |-> <<>>, module_name |-> ""]

InstanceRef(module, instance_path) ==
    [module |-> module, instance_path |-> instance_path]

\* From<ModuleRef> for InstanceRef: the root instance of a type.
RootRef(module) == InstanceRef(module, <<>>)

InstanceNew(module, kind) ==
    [type_ref |-> module, kind |-> kind, attributes |-> EmptyMap,
     children |-> EmptyMap, connections |-> <<>>, reference_designator |-> None]

InstancePort == InstanceNew(ModuleRefPort, "Port")

InstancePin == InstanceNew(ModuleRefPin, "Pin")

add_attribute(inst, attribute, value) ==
    [inst EXCEPT !.attributes = Insert(inst.attributes, attribute, value)]

add_child(inst, child, instance_ref) ==
    [inst EXCEPT !.children = Insert(inst.children, child, instance_ref)]

Connection(left, right) == [left |-> left, right |-> right]

\* EvaluatorError -> AnalyzerDiagnostic: the file is the error location's file.
Diagnostic(kind, file, detail) ==
    [severity |-> "Error", kind |-> kind, file |-> file, detail |-> detail]

Ok == [kind |-> None, detail |-> ""]

Err(kind, detail) == [kind |-> kind, detail |-> detail]

(***************************************************************************)
(* AnalyzerReporter.                                                       *)
(***************************************************************************)
\* AnalyzerReporter::clear: entry(path).or_default().clear()
reporter_clear(diags, path) == Insert(diags, path, <<>>)

\* AnalyzerReporter::report: entry(diagnostic.file).or_default().push(diagnostic)
reporter_report(diags, diagnostic) ==
    Insert(diags, diagnostic.file,
           IF diagnostic.file \in DOMAIN diags
           THEN Append(diags[diagnostic.file], diagnostic)
           ELSE <<diagnostic>>)

(***************************************************************************)
(* Evaluator::clone_instance.  The result is the store after the call and  *)
(* whether the call returned Ok.  The children of one instance are cloned  *)
(* into disjoint sets of keys, so the order in which the HashMap yields    *)
(* them does not show in the store when every clone succeeds.              *)
(***************************************************************************)
\* A transposition that moves a reference to to_ref's module only.
transpose_ref_unmoved(ref, from_ref, to_ref) ==
    InstanceRef(to_ref.module, ref.instance_path)

\* Strip from_ref.instance_path from the path, if it starts with it, and
\* re-prefix it with to_ref.instance_path, in to_ref's module.
transpose_ref(ref, from_ref, to_ref) ==
    InstanceRef(to_ref.module,
        to_ref.instance_path \o
            (IF starts_with(ref.instance_path, from_ref.instance_path)
             THEN DropFirst(ref.instance_path, Len(from_ref.instance_path))
             ELSE ref.instance_path))

\* A clone that transposes only the left endpoint of a connection.
transpose_connection_left(connection, from_ref, to_ref) ==
    Connection(transpose_ref(connection.left, from_ref, to_ref), connection.right)

transpose_connection(connection, from_ref, to_ref) ==
    Connection(transpose_ref(connection.left, from_ref, to_ref),
               transpose_ref(connection.right, from_ref, to_ref))

\* The child keyed by its name alone, not under to_ref's path.
transposed_child_flat(to_ref, k) == InstanceRef(to_ref.module, <<k>>)

\* let mut path = to_ref.instance_path.clone(); path.push(k)
transposed_child(to_ref, k) ==
    InstanceRef(to_ref.module, Append(to_ref.instance_path, k))

RECURSIVE clone_instance(_, _, _)
RECURSIVE clone_children(_, _, _, _)

clone_children(store, children, names, to_ref) ==
    IF names = {} THEN [ok |-> TRUE, instances |-> store]
    ELSE LET k == CHOOSE n \in names : TRUE
         IN  Bind(clone_instance(store, children[k], transposed_child(to_ref, k)),
                  LAMBDA r :
                      IF r.ok
                      THEN clone_children(r.instances, children, names \ {k}, to_ref)
                      ELSE r)

clone_instance(store, from_ref, to_ref) ==
    IF from_ref \notin DOMAIN store
    THEN [ok |-> FALSE, instances |-> store]
    ELSE LET from_instance == store[from_ref]
             children == from_instance.children
             connections == from_instance.connections
             to_instance ==
                 [type_ref |-> from_instance.type_ref,
                  kind |-> from_instance.kind,
                  attributes |-> from_instance.attributes,
                  children |-> [k \in DOMAIN children |-> transposed_child(to_ref, k)],
                  connections |->
                      [i \in DOMAIN connections |->
                          transpose_connection(connections[i], from_ref, to_ref)],
                  reference_designator |-> None]
         IN  Bind(clone_children(store, children, DOMAIN children, to_ref),
                  LAMBDA r :
                      IF r.ok
                      THEN [ok |-> TRUE,
                            instances |-> Insert(r.instances, to_ref, to_instance)]
                      ELSE r)

(***************************************************************************)
(* Evaluator::connect.  inst is the checked-out root instance of the block *)
(* whose body holds the statement.  The result is the error (or Ok), the   *)
(* store and the root instance after the call.                             *)
(***************************************************************************)
\* A kind check that lets every kind pass.
AnyKind(kind) == kind \in {"Module", "Component", "Interface", "Port", "Pin"}

PortOrPin(kind) == kind \in {"Port", "Pin"}

\* A prefix length that files every connection on the block's root.
common_prefix_none(left_path, right_path) == 0

\* left_path.iter().zip(right_path.iter()).take_while(|(a, b)| a == b).count()
common_prefix_len(left_path, right_path) ==
    LET n == Min(Len(left_path), Len(right_path))
        diff == {i \in 1..n : left_path[i] # right_path[i]}
    IN  IF diff = {} THEN n
        ELSE (CHOOSE i \in diff : \A j \in diff : i <= j) - 1

\* An expansion that pairs the left children with the right children in
\* the opposite order.
connect_expand_crossed(left_instance, right_instance, source, target) ==
    LET left_sorted == SortedKeys(DOMAIN left_instance.children)
        right_sorted == SortedKeys(DOMAIN right_instance.children)
        n == Min(Len(left_sorted), Len(right_sorted))
    IN  IF left_instance.kind = "Interface" /\ right_instance.kind = "Interface"
        THEN [err |-> Ok,
              connections |->
                  [i \in 1..n |->
                      Connection(left_instance.children[left_sorted[i]],
                                 right_instance.children[right_sorted[n + 1 - i]])]]
        ELSE [err |-> Ok, connections |-> <<Connection(source, target)>>]

\* The Connections a pair of endpoint instances expands to (the match on
\* the two kinds), or the error.
connect_expand(left_instance, right_instance, source, target) ==
    IF PortOrPin(left_instance.kind) /\ PortOrPin(right_instance.kind)
    THEN [err |-> Ok, connections |-> <<Connection(source, target)>>]
    ELSE IF left_instance.kind = "Interface" /\ right_instance.kind = "Interface"
    THEN IF left_instance.type_ref # right_instance.type_ref
         THEN [err |-> Err("InvalidAssignment", "interfaces of different type"),
               connections |-> <<>>]
         ELSE LET left_sorted == SortedKeys(DOMAIN left_instance.children)
                  right_sorted == SortedKeys(DOMAIN right_instance.children)
                  n == Min(Len(left_sorted), Len(right_sorted))
              IN  [err |-> Ok,
                   connections |->
                       [i \in 1..n |->
                           Connection(left_instance.children[left_sorted[i]],
                                      right_instance.children[right_sorted[i]])]]
    ELSE [err |-> Err("InvalidAssignment", "instances of different kind"),
          connections |-> <<>>]

\* The placement loop: file each Connection at the common ancestor of its
\* endpoints, stopping at the first error.
RECURSIVE connect_place(_, _, _, _, _)
connect_place(store, inst, source, connections, i) ==
    IF i > Len(connections)
    THEN [err |-> Ok, instances |-> store, instance |-> inst]
    ELSE LET connection == connections[i]
             left_path == connection.left.instance_path
             right_path == connection.right.instance_path
             n == common_prefix_len(left_path, right_path)
             common_ancestor_ref == InstanceRef(source.module, SubSeq(left_path, 1, n))
         IN  IF connection.left.module # connection.right.module
             THEN [err |-> Err("InvalidAssignment", "across modules"),
                   instances |-> store, instance |-> inst]
             ELSE IF n = 0
             THEN connect_place(store,
                      [inst EXCEPT !.connections = Append(@, connection)],
                      source, connections, i + 1)
             ELSE IF common_ancestor_ref \notin DOMAIN store
             THEN [err |-> Err("InvalidConnection", "ancestor does not exist"),
                   instances |-> store, instance |-> inst]
             ELSE connect_place(
                      [store EXCEPT ![common_ancestor_ref].connections =
                                        Append(@, connection)],
                      inst, source, connections, i + 1)

\* A connect that files the Connection on the block before it resolves the
\* endpoints.
connect_eager(store, inst, source, target) ==
    IF source \notin DOMAIN store \/ target \notin DOMAIN store
    THEN [err |-> Err("InvalidConnection", "does not exist"),
          instances |-> store,
          instance |-> [inst EXCEPT !.connections = Append(@, Connection(source, target))]]
    ELSE Bind(connect_expand(store[source], store[target], source, target),
              LAMBDA e :
                  IF e.err # Ok
                  THEN [err |-> e.err, instances |-> store,
                        instance |-> [inst EXCEPT !.connections =
                                          Append(@, Connection(source, target))]]
                  ELSE connect_place(store, inst, source, e.connections, 1))

connect(store, inst, source, target) ==
    IF source \notin DOMAIN store
    THEN [err |-> Err("InvalidConnection", "does not exist"),
          instances |-> store, instance |-> inst]
    ELSE IF target \notin DOMAIN store
    THEN [err |-> Err("InvalidConnection", "does not exist"),
          instances |-> store, instance |-> inst]
    ELSE Bind(connect_expand(store[source], store[target], source, target),
              LAMBDA e :
                  IF e.err # Ok
                  THEN [err |-> e.err, instances |-> store, instance |-> inst]
                  ELSE connect_place(store, inst, source, e.connections, 1))

(***************************************************************************)
(* The statement tree consumed from the parser.  A statement is a record   *)
(* with a tag:                                                             *)
(*   Import(from_path, imports)   DepImport(name, from_path)               *)
(*   Block(kind, name, parent, body)   Assign(target, value)               *)
(*   Connect(left, right)   Signal(name)   Pin(name)                       *)
(*   Comment   ParseError   Pass   Assert                                  *)
(* An expression is a tag and its text; a connectable is a tag and the     *)
(* parts of its reference.                                                 *)
(***************************************************************************)
Import(from_path, imports) ==
    [tag |-> "Import", from_path |-> from_path, imports |-> imports]

DepImport(name, from_path) ==
    [tag |-> "DepImport", name |-> name, from_path |-> from_path]

Block(kind, name, parent, body) ==
    [tag |-> "Block", kind |-> kind, name |-> name, parent |-> parent, body |-> body]

Assign(target, value) == [tag |-> "Assign", target |-> target, value |-> value]

New(type_name) == [tag |-> "New", text |-> type_name]

Expr(tag, text) == [tag |-> tag, text |-> text]

Connect(left, right) == [tag |-> "Connect", left |-> left, right |-> right]

ConnSignal(name) == [tag |-> "Signal", parts |-> <<name>>]

ConnPin(name) == [tag |-> "Pin", parts |-> <<name>>]

ConnPort(parts) == [tag |-> "Port", parts |-> parts]

Signal(name) == [tag |-> "Signal", name |-> name]

Pin(name) == [tag |-> "Pin", name |-> name]

Comment == [tag |-> "Comment"]

ParseError == [tag |-> "ParseError"]

Pass == [tag |-> "Pass"]

(***************************************************************************)
(* impl From<&Expr> for AttributeValue.  str::parse::<f64> is a table over *)
(* the number texts of the model: "1" and "1.0" are the same number.       *)
(***************************************************************************)
F64Table == ("1" :> 1) @@ ("1.0" :> 1) @@ ("2" :> 2)

AttributeValue(tag, value) == [tag |-> tag, value |-> value]

AttributeValueFrom(expr) ==
    CASE expr.tag = "String" -> AttributeValue("String", expr.text)
      [] expr.tag = "Number" ->
            IF expr.text \in DOMAIN F64Table
            THEN AttributeValue("Number", F64Table[expr.text])
            ELSE AttributeValue("String", expr.text)
      [] expr.tag = "Bool" -> AttributeValue("Boolean", expr.text = "True")
      [] expr.tag = "Physical" -> AttributeValue("Physical", expr.text)
      [] expr.tag = "Port" -> AttributeValue("Port", expr.text)
      [] OTHER -> AttributeValue("String", "")

(***************************************************************************)
(* FileScope: symbols is a map from Symbol to ModuleRef.                   *)
(***************************************************************************)
scope_define(symbols, symbol, module_ref) == Insert(symbols, symbol, module_ref)

scope_resolve(symbols, symbol) ==
    IF symbol \in DOMAIN symbols THEN symbols[symbol] ELSE None

\* Whether FileScope::resolve returns Some.
scope_resolves(symbols, symbol) == symbol \in DOMAIN symbols

(***************************************************************************)
(* Evaluator::evaluate_block_stmt: one statement of a block body, against  *)
(* the checked-out root instance inst of the block module_ref.  The result *)
(* is the error (or Ok), the store and the root instance after the call.   *)
(***************************************************************************)
StmtResult(err, store, inst) == [err |-> err, instances |-> store, instance |-> inst]

\* x = new Type
assign_new(store, symbols, inst, module_ref, stmt) ==
    LET target_ref == InstanceRef(module_ref, stmt.target)
        child_name == stmt.target[Len(stmt.target)]
        type_module_ref == scope_resolve(symbols, stmt.value.text)
    IN  IF Len(stmt.target) # 1
        THEN StmtResult(Err("InvalidAssignment", "sub-module"), store, inst)
        ELSE IF ~scope_resolves(symbols, stmt.value.text)
        THEN StmtResult(Err("TypeNotFound", ""), store, inst)
        ELSE IF target_ref \in DOMAIN store
        THEN StmtResult(Err("InvalidAssignment", "already exists"), store, inst)
        ELSE Bind(clone_instance(store, RootRef(type_module_ref), target_ref),
                  LAMBDA r :
                      IF ~r.ok
                      THEN StmtResult(Err("Internal", "failed to clone"),
                                      r.instances, inst)
                      ELSE StmtResult(Ok, r.instances,
                                      add_child(inst, child_name, target_ref)))

\* An attribute assignment that writes through to every instance of the
\* target's type.
assign_attribute_shared(store, inst, module_ref, stmt) ==
    LET n == Len(stmt.target)
        target_ref == InstanceRef(module_ref, SubSeq(stmt.target, 1, n - 1))
        attr_value == AttributeValueFrom(stmt.value)
    IN  IF n < 2 \/ target_ref \notin DOMAIN store
        THEN StmtResult(Ok, store, add_attribute(inst, stmt.target[n], attr_value))
        ELSE StmtResult(Ok,
                 [ref \in DOMAIN store |->
                     IF store[ref].type_ref = store[target_ref].type_ref
                     THEN add_attribute(store[ref], stmt.target[n], attr_value)
                     ELSE store[ref]],
                 inst)

\* path.to.x = <expr>
assign_attribute(store, inst, module_ref, stmt) ==
    LET n == Len(stmt.target)
        attr_name == stmt.target[n]
        target_ref == InstanceRef(module_ref, SubSeq(stmt.target, 1, n - 1))
        attr_value == AttributeValueFrom(stmt.value)
    IN  IF n = 0
        THEN StmtResult(Err("InvalidAssignment", "top-level module"), store, inst)
        ELSE IF n = 1
        THEN StmtResult(Ok, store, add_attribute(inst, attr_name, attr_value))
        ELSE IF target_ref \notin DOMAIN store
        THEN StmtResult(Err("InvalidAssignment", ""), store, inst)
        ELSE StmtResult(Ok,
                 [store EXCEPT ![target_ref] = add_attribute(@, attr_name, attr_value)],
                 inst)

\* signal name / pin name
declare_child(store, inst, module_ref, name, child) ==
    LET ref == InstanceRef(module_ref, <<name>>)
    IN  StmtResult(Ok, Insert(store, ref, child), add_child(inst, name, ref))

\* One side of a connect statement: a bare signal or pin is declared
\* first, a port reference only names an instance.
connectable_ref(module_ref, c) == InstanceRef(module_ref, c.parts)

declare_connectable(r, module_ref, c) ==
    CASE c.tag = "Signal" ->
            declare_child(r.instances, r.instance, module_ref, c.parts[1], InstancePort)
      [] c.tag = "Pin" ->
            declare_child(r.instances, r.instance, module_ref, c.parts[1], InstancePin)
      [] OTHER -> r

connect_stmt(store, inst, module_ref, stmt) ==
    Bind(declare_connectable(
             declare_connectable(StmtResult(Ok, store, inst), module_ref, stmt.left),
             module_ref, stmt.right),
         LAMBDA r :
             connect(r.instances, r.instance,
                     connectable_ref(module_ref, stmt.left),
                     connectable_ref(module_ref, stmt.right)))

evaluate_block_stmt(store, symbols, inst, module_ref, stmt) ==
    CASE stmt.tag = "Assign" ->
            IF stmt.value.tag = "New"
            THEN assign_new(store, symbols, inst, module_ref, stmt)
            ELSE assign_attribute(store, inst, module_ref, stmt)
      [] stmt.tag = "Signal" ->
            declare_child(store, inst, module_ref, stmt.name, InstancePort)
      [] stmt.tag = "Pin" ->
            declare_child(store, inst, module_ref, stmt.name, InstancePin)
      [] stmt.tag = "Connect" -> connect_stmt(store, inst, module_ref, stmt)
      [] OTHER -> StmtResult(Ok, store, inst)

(***************************************************************************)
(* Evaluator::evaluate_block, in its three parts: seeding the root         *)
(* instance and checking it out (block_begin), the body loop (block_body)  *)
(* and the reinsertion (block_end).  The evaluator state ev is a record    *)
(* of the Evaluator's fields instances, diagnostics and files, and log,    *)
(* the paths evaluate_inner was entered with, in order.                    *)
(***************************************************************************)
InstanceKindOf(block_kind) ==
    CASE block_kind = "Module" -> "Module"
      [] block_kind = "Component" -> "Component"
      [] block_kind = "Interface" -> "Interface"

report(ev, kind, file, detail) ==
    [ev EXCEPT !.diagnostics = reporter_report(@, Diagnostic(kind, file, detail))]

\* evaluate_block without `instance.type_ref = module_ref`.
block_begin_untyped(store, symbols, source_path, block) ==
    LET module_ref == ModuleRef(source_path, block.name)
        instance_ref == RootRef(module_ref)
        parent_module_ref == scope_resolve(symbols, block.parent)
    IN  IF block.parent # None /\ ~scope_resolves(symbols, block.parent)
        THEN StmtResult(Err("TypeNotFound", ""), store, None)
        ELSE Bind(IF block.parent # None
                  THEN clone_instance(store, RootRef(parent_module_ref), instance_ref)
                  ELSE [ok |-> TRUE,
                        instances |->
                            Insert(store, instance_ref,
                                   InstanceNew(module_ref, InstanceKindOf(block.kind)))],
                  LAMBDA seeded :
                      IF ~seeded.ok
                      THEN StmtResult(Err("Internal", "failed to clone parent"),
                                      seeded.instances, None)
                      ELSE IF instance_ref \notin DOMAIN seeded.instances
                      THEN StmtResult(Err("Internal", ""), seeded.instances, None)
                      ELSE StmtResult(Ok, Remove(seeded.instances, instance_ref),
                                      seeded.instances[instance_ref]))

block_begin(store, symbols, source_path, block) ==
    LET module_ref == ModuleRef(source_path, block.name)
        instance_ref == RootRef(module_ref)
        parent_module_ref == scope_resolve(symbols, block.parent)
    IN  IF block.parent # None /\ ~scope_resolves(symbols, block.parent)
        THEN StmtResult(Err("TypeNotFound", ""), store, None)
        ELSE Bind(IF block.parent # None
                  THEN clone_instance(store, RootRef(parent_module_ref), instance_ref)
                  ELSE [ok |-> TRUE,
                        instances |->
                            Insert(store, instance_ref,
                                   InstanceNew(module_ref, InstanceKindOf(block.kind)))],
                  LAMBDA seeded :
                      IF ~seeded.ok
                      THEN StmtResult(Err("Internal", "failed to clone parent"),
                                      seeded.instances, None)
                      ELSE IF instance_ref \notin DOMAIN seeded.instances
                      THEN StmtResult(Err("Internal", ""), seeded.instances, None)
                      ELSE StmtResult(Ok, Remove(seeded.instances, instance_ref),
                                      [seeded.instances[instance_ref]
                                           EXCEPT !.type_ref = module_ref]))

\* A body loop that returns at the first failing statement.
RECURSIVE block_body_abort(_, _, _, _, _, _)
block_body_abort(ev, symbols, inst, module_ref, body, i) ==
    IF i > Len(body) THEN [ev |-> ev, instance |-> inst]
    ELSE Bind(evaluate_block_stmt(ev.instances, symbols, inst, module_ref, body[i]),
              LAMBDA r :
                  IF r.err # Ok
                  THEN [ev |-> report([ev EXCEPT !.instances = r.instances],
                                      r.err.kind, module_ref.source_path, r.err.detail),
                        instance |-> r.instance]
                  ELSE block_body_abort([ev EXCEPT !.instances = r.instances], symbols,
                                        r.instance, module_ref, body, i + 1))

RECURSIVE block_body(_, _, _, _, _, _)
block_body(ev, symbols, inst, module_ref, body, i) ==
    IF i > Len(body) THEN [ev |-> ev, instance |-> inst]
    ELSE Bind(evaluate_block_stmt(ev.instances, symbols, inst, module_ref, body[i]),
              LAMBDA r :
                  Bind(IF r.err # Ok
                       THEN report([ev EXCEPT !.instances = r.instances],
                                   r.err.kind, module_ref.source_path, r.err.detail)
                       ELSE [ev EXCEPT !.instances = r.instances],
                       LAMBDA ev1 :
                           block_body(ev1, symbols, r.instance, module_ref, body, i + 1)))

\* evaluate_block returning without `self.add_instance(&instance_ref, instance)`.
block_end_dropped(store, inst, module_ref) == store

block_end(store, inst, module_ref) == Insert(store, RootRef(module_ref), inst)

evaluate_block(ev, symbols, source_path, block) ==
    LET module_ref == ModuleRef(source_path, block.name)
    IN  Bind(block_begin(ev.instances, symbols, source_path, block),
             LAMBDA b :
                 IF b.err # Ok
                 THEN [err |-> b.err, ev |-> [ev EXCEPT !.instances = b.instances],
                       symbols |-> symbols]
                 ELSE Bind(block_body([ev EXCEPT !.instances = b.instances], symbols,
                                      b.instance, module_ref, block.body, 1),
                           LAMBDA r :
                               [err |-> Ok,
                                ev |-> [r.ev EXCEPT !.instances =
                                            block_end(@, r.instance, module_ref)],
                                symbols |->
                                    scope_define(symbols, block.name, module_ref)]))

(***************************************************************************)
(* Paths and the file system.  disk maps the path of every regular file to *)
(* the statement tree of its text; a directory exists when a file lies     *)
(* beneath it.  Path::canonicalize succeeds exactly on an existing path    *)
(* (the paths of the model hold no symbolic link and no "." or "..").      *)
(***************************************************************************)
is_absolute(path) == Len(path) > 0 /\ path[1] = "/"

\* Path::parent: None for the root and for the empty path.
path_parent(path) ==
    IF Len(path) = 0 \/ path = <<"/">> THEN None
    ELSE SubSeq(path, 1, Len(path) - 1)

\* Path::file_name: the last component, None for the root and the empty path.
path_file_name(path) ==
    IF Len(path) = 0 \/ path = <<"/">> THEN None
    ELSE path[Len(path)]

\* Path::join: an absolute argument replaces the path.
path_join(path, other) == IF is_absolute(other) THEN other ELSE path \o other

path_exists(fs, path) ==
    /\ Len(path) > 0
    /\ \E f \in DOMAIN fs : starts_with(f, path)

canonicalize(fs, path) == IF path_exists(fs, path) THEN path ELSE None

\* Tier 2: the first ancestor directory named `.ato`, nearest first.
RECURSIVE find_dot_ato(_)
find_dot_ato(dir) ==
    IF dir = None THEN None
    ELSE IF path_file_name(dir) = ".ato" THEN dir
    ELSE find_dot_ato(path_parent(dir))

\* Tier 3: the first ancestor directory that contains ato.yaml, nearest first.
RECURSIVE find_project_root(_, _)
find_project_root(fs, dir) ==
    IF dir = None THEN None
    ELSE IF path_exists(fs, path_join(dir, <<"ato.yaml">>)) THEN dir
    ELSE find_project_root(fs, path_parent(dir))

\* The two candidates beneath a project root, in order.
resolve_in_root(fs, root, import_path) ==
    LET project_relative == canonicalize(fs, path_join(root, import_path))
        modules_path ==
            canonicalize(fs, path_join(root, <<".ato", "modules">> \o import_path))
    IN  IF project_relative # None THEN project_relative ELSE modules_path

resolve_import_path(fs, ctx_path, import_path) ==
    LET parent == path_parent(ctx_path)
        relative_path ==
            IF parent = None THEN None
            ELSE canonicalize(fs, path_join(parent, import_path))
        dot_ato == find_dot_ato(parent)
        in_dot_ato ==
            IF dot_ato = None \/ path_parent(dot_ato) = None THEN None
            ELSE resolve_in_root(fs, path_parent(dot_ato), import_path)
        project_root == find_project_root(fs, parent)
        in_project ==
            IF project_root = None THEN None
            ELSE resolve_in_root(fs, project_root, import_path)
    IN  IF is_absolute(import_path) THEN import_path
        ELSE IF relative_path # None THEN relative_path
        ELSE IF in_dot_ato # None THEN in_dot_ato
        ELSE in_project

\* Evaluator::get_or_load_source: the cached source, or the file read from
\* disk and cached in files.
get_or_load_source(ev, fs, path) ==
    IF path \in DOMAIN ev.files
    THEN [ok |-> TRUE, ev |-> ev, ast |-> ev.files[path]]
    ELSE IF path \in DOMAIN fs
    THEN [ok |-> TRUE, ev |-> [ev EXCEPT !.files = Insert(@, path, fs[path])],
          ast |-> fs[path]]
    ELSE [ok |-> FALSE, ev |-> ev, ast |-> <<>>]

(***************************************************************************)
(* Evaluator::collect_block_declarations and Evaluator::sort_blocks.       *)
(* A declaration is the name, the parent and the location (the index of    *)
(* the statement in the file) of a block, and the block statement.         *)
(***************************************************************************)
BlockDeclaration(block, location) ==
    [name |-> block.name, parent |-> block.parent, location |-> location,
     stmt |-> block]

\* The result is the declarations kept and the locations of the duplicates
\* reported, in the order of the file.
\* The loop without its `continue`: a duplicate is reported and kept.
RECURSIVE collect_from_kept(_, _, _, _)
collect_from_kept(ast, i, kept, duplicates) ==
    IF i > Len(ast) THEN [declarations |-> kept, duplicates |-> duplicates]
    ELSE IF ast[i].tag # "Block" THEN collect_from_kept(ast, i + 1, kept, duplicates)
    ELSE IF \E d \in Range(kept) : d.name = ast[i].name
    THEN collect_from_kept(ast, i + 1, Append(kept, BlockDeclaration(ast[i], i)),
                           Append(duplicates, i))
    ELSE collect_from_kept(ast, i + 1, Append(kept, BlockDeclaration(ast[i], i)),
                           duplicates)

RECURSIVE collect_from(_, _, _, _)
collect_from(ast, i, kept, duplicates) ==
    IF i > Len(ast) THEN [declarations |-> kept, duplicates |-> duplicates]
    ELSE IF ast[i].tag # "Block" THEN collect_from(ast, i + 1, kept, duplicates)
    ELSE IF \E d \in Range(kept) : d.name = ast[i].name
    THEN collect_from(ast, i + 1, kept, Append(duplicates, i))
    ELSE collect_from(ast, i + 1, Append(kept, BlockDeclaration(ast[i], i)), duplicates)

collect_block_declarations(ast) == collect_from(ast, 1, <<>>, <<>>)

\* declarations.iter().find(|d| &d.name == parent_name): the index of the
\* first declaration of that name, 0 when there is none.
find_declaration(decls, name) ==
    LET found == {i \in DOMAIN decls : decls[i].name = name}
    IN  IF found = {} THEN 0 ELSE CHOOSE i \in found : \A j \in found : i <= j

\* The state of the sort: the order so far, the visited and the temporary
\* marks (sets of names), and the declarations reported as cyclic.
RECURSIVE visit(_, _, _)

\* visit without the descent into the parent: the textual order.
visit_textual(decls, i, st) ==
    IF decls[i].name \in st.visited THEN st
    ELSE [st EXCEPT !.visited = @ \cup {decls[i].name}, !.sorted = Append(@, i)]

\* visit reporting the cycle at every block it unwinds through.
visit_unwinding(decls, i, st) ==
    LET block == decls[i]
        marked == [st EXCEPT !.temp_mark = @ \cup {block.name}]
        p == find_declaration(decls, block.parent)
        after_parent ==
            IF block.parent # None /\ p # 0 THEN visit(decls, p, marked) ELSE marked
    IN  IF block.name \in st.visited THEN st
        ELSE IF block.name \in st.temp_mark
        THEN [st EXCEPT !.cyclic = Append(@, i)]
        ELSE [after_parent EXCEPT
                 !.temp_mark = @ \ {block.name},
                 !.visited = @ \cup {block.name},
                 !.sorted = Append(@, i),
                 !.cyclic = IF Len(after_parent.cyclic) > Len(st.cyclic)
                            THEN Append(@, i) ELSE @]

visit(decls, i, st) ==
    LET block == decls[i]
        marked == [st EXCEPT !.temp_mark = @ \cup {block.name}]
        p == find_declaration(decls, block.parent)
        after_parent ==
            IF block.parent # None /\ p # 0 THEN visit(decls, p, marked) ELSE marked
    IN  IF block.name \in st.visited THEN st
        ELSE IF block.name \in st.temp_mark
        THEN [st EXCEPT !.cyclic = Append(@, i)]
        ELSE [after_parent EXCEPT !.temp_mark = @ \ {block.name},
                                  !.visited = @ \cup {block.name},
                                  !.sorted = Append(@, i)]

RECURSIVE sort_from(_, _, _)
sort_from(decls, i, st) ==
    IF i > Len(decls) THEN st
    ELSE IF decls[i].name \in st.visited THEN sort_from(decls, i + 1, st)
    ELSE sort_from(decls, i + 1, visit(decls, i, st))

\* The result holds the order as indices into decls, and the indices of the
\* declarations reported as CyclicInheritance, in order.
sort_blocks(decls) ==
    sort_from(decls, 1, [sorted |-> <<>>, visited |-> {}, temp_mark |-> {},
                         cyclic |-> <<>>])

(***************************************************************************)
(* Evaluator::evaluate_import, evaluate_top_stmt and evaluate_inner, which *)
(* call each other: an import evaluates the imported file in full.         *)
(***************************************************************************)
TopResult(err, ev, symbols) == [err |-> err, ev |-> ev, symbols |-> symbols]

\* The symbols of an import that resolve to a root instance of the store
\* are bound to that instance's type_ref, in order.
RECURSIVE define_imported(_, _, _, _, _)
define_imported(store, symbols, path, import_symbols, i) ==
    IF i > Len(import_symbols) THEN symbols
    ELSE LET instance_ref == RootRef(ModuleRef(path, import_symbols[i]))
         IN  define_imported(store,
                 IF instance_ref \in DOMAIN store
                 THEN scope_define(symbols, import_symbols[i], store[instance_ref].type_ref)
                 ELSE symbols,
                 path, import_symbols, i + 1)

\* One ImportNotFound diagnostic for every requested symbol that has no
\* root instance after the imported file was evaluated, in order.
RECURSIVE report_not_found(_, _, _, _, _)
report_not_found(ev, source_path, path, import_symbols, i) ==
    IF i > Len(import_symbols) THEN ev
    ELSE report_not_found(
             IF RootRef(ModuleRef(path, import_symbols[i])) \in DOMAIN ev.instances
             THEN ev
             ELSE report(ev, "ImportNotFound", source_path, import_symbols[i]),
             source_path, path, import_symbols, i + 1)

RECURSIVE evaluate_import(_, _, _, _, _, _, _)
RECURSIVE evaluate_top_stmt(_, _, _, _, _, _)
RECURSIVE evaluate_inner(_, _, _, _, _)
RECURSIVE top_stmts(_, _, _, _, _, _, _)
RECURSIVE blocks_in_order(_, _, _, _, _, _)

\* A cycle check that finds no path on the stack.
import_cycle_unchecked(import_stack, path) == FALSE

\* import_stack.iter().any(|p| p == &path)
import_cycle(import_stack, path) == path \in Range(import_stack)

\* What the import has decided when it has resolved its path (or None):
\* it returns with result, or it loads the file ast of that path and
\* evaluates it (load), with result holding the state so far.
ImportOutcome(load, result, path, ast) ==
    [load |-> load, result |-> result, path |-> path, ast |-> ast]

import_outcome(ev, fs, import_stack, symbols, import_symbols, path) ==
    LET \* Fast path: every requested symbol already has a root instance.
        load_file ==
            \E i \in DOMAIN import_symbols :
                \/ path = None
                \/ RootRef(ModuleRef(path, import_symbols[i])) \notin DOMAIN ev.instances
        fast == IF path = None THEN symbols
                ELSE define_imported(ev.instances, symbols, path, import_symbols, 1)
    IN  IF ~load_file THEN ImportOutcome(FALSE, TopResult(Ok, ev, fast), path, <<>>)
        ELSE IF path = None
        THEN ImportOutcome(FALSE, TopResult(Err("ImportPathNotFound", ""), ev, fast),
                           path, <<>>)
        ELSE IF import_cycle(import_stack, path)
        THEN ImportOutcome(FALSE, TopResult(Err("ImportCycle", ""), ev, fast), path, <<>>)
        ELSE Bind(get_or_load_source(ev, fs, path),
                  LAMBDA loaded :
                      IF ~loaded.ok
                      THEN ImportOutcome(FALSE,
                               TopResult(Err("ImportLoadFailed", ""), ev, fast), path, <<>>)
                      ELSE ImportOutcome(TRUE, TopResult(Ok, loaded.ev, fast), path,
                                         loaded.ast))

\* The import after the imported file was evaluated: the symbols are bound
\* from the store, the missing ones reported.
import_finish(evaluated, source_path, symbols, import_symbols, path) ==
    TopResult(Ok,
        report_not_found(evaluated, source_path, path, import_symbols, 1),
        define_imported(evaluated.instances, symbols, path, import_symbols, 1))

\* The import after its path was resolved (or not: None).
import_resolved(ev, fs, source_path, import_stack, symbols, import_symbols, path) ==
    Bind(import_outcome(ev, fs, import_stack, symbols, import_symbols, path),
         LAMBDA o :
             IF ~o.load THEN o.result
             ELSE Bind(evaluate_inner(o.result.ev, fs, path, o.ast,
                                      Append(import_stack, path)),
                       LAMBDA evaluated :
                           import_finish(evaluated, source_path, o.result.symbols,
                                         import_symbols, path)))

evaluate_import(ev, fs, source_path, import_stack, symbols, import_path, import_symbols) ==
    Bind(resolve_import_path(fs, source_path, import_path),
         LAMBDA path :
             import_resolved(ev, fs, source_path, import_stack, symbols,
                             import_symbols, path))

\* The symbols an import statement requests.
import_symbols_of(stmt) == IF stmt.tag = "Import" THEN stmt.imports ELSE <<stmt.name>>

evaluate_top_stmt(ev, fs, source_path, import_stack, symbols, stmt) ==
    CASE stmt.tag \in {"Import", "DepImport"} ->
            evaluate_import(ev, fs, source_path, import_stack, symbols, stmt.from_path,
                            import_symbols_of(stmt))
      [] stmt.tag = "Block" -> evaluate_block(ev, symbols, source_path, stmt)
      [] stmt.tag = "Comment" -> TopResult(Ok, ev, symbols)
      [] stmt.tag = "ParseError" ->
            TopResult(Ok, report(ev, "ParseError", source_path, ""), symbols)
      [] OTHER -> TopResult(Err("UnexpectedStmt", ""), ev, symbols)

\* Phase 4: every statement of the file that is not a block, in order.
top_stmts(ev, fs, source_path, import_stack, symbols, ast, i) ==
    IF i > Len(ast) THEN [ev |-> ev, symbols |-> symbols]
    ELSE IF ast[i].tag = "Block"
    THEN top_stmts(ev, fs, source_path, import_stack, symbols, ast, i + 1)
    ELSE Bind(evaluate_top_stmt(ev, fs, source_path, import_stack, symbols, ast[i]),
              LAMBDA r :
                  top_stmts(IF r.err # Ok
                            THEN report(r.ev, r.err.kind, source_path, r.err.detail)
                            ELSE r.ev,
                            fs, source_path, import_stack, r.symbols, ast, i + 1))

\* Phase 5: the blocks in the order sort_blocks returned.
blocks_in_order(ev, symbols, source_path, decls, order, i) ==
    IF i > Len(order) THEN ev
    ELSE Bind(evaluate_block(ev, symbols, source_path, decls[order[i]].stmt),
              LAMBDA r :
                  blocks_in_order(IF r.err # Ok
                                  THEN report(r.ev, r.err.kind, source_path,
                                              r.err.detail)
                                  ELSE r.ev,
                                  r.symbols, source_path, decls, order, i + 1))

\* Diagnostics reported while collecting and sorting, at the block's location.
RECURSIVE report_each(_, _, _, _, _)
report_each(ev, kind, source_path, locations, i) ==
    IF i > Len(locations) THEN ev
    ELSE report_each(report(ev, kind, source_path, locations[i]),
                     kind, source_path, locations, i + 1)

\* Phase 3: every kept declaration is bound to its own ModuleRef.
RECURSIVE preregister(_, _, _, _)
preregister(symbols, source_path, decls, i) ==
    IF i > Len(decls) THEN symbols
    ELSE preregister(scope_define(symbols, decls[i].name,
                                  ModuleRef(source_path, decls[i].name)),
                     source_path, decls, i + 1)

\* Phases 3 to 5, with the declarations collected and the order sorted.
evaluate_phases(ev, fs, source_path, ast, import_stack, decls, order) ==
    Bind(top_stmts(ev, fs, source_path, import_stack,
                   preregister(EmptyMap, source_path, decls, 1), ast, 1),
         LAMBDA r4 :
             blocks_in_order(r4.ev, r4.symbols, source_path, decls, order, 1))

\* Phases 1 and 2 as the reporter sees them: the file's diagnostics are
\* cleared, then the duplicates and the cycles are reported.
inner_reports(ev, source_path, collected, order) ==
    report_each(
        report_each(
            [ev EXCEPT !.diagnostics = reporter_clear(@, source_path),
                       !.log = Append(@, source_path)],
            "DuplicateDeclaration", source_path, collected.duplicates, 1),
        "CyclicInheritance", source_path,
        [i \in DOMAIN order.cyclic |-> collected.declarations[order.cyclic[i]].location],
        1)

evaluate_inner(ev, fs, source_path, ast, import_stack) ==
    Bind(collect_block_declarations(ast),
         LAMBDA collected :
             Bind(sort_blocks(collected.declarations),
                  LAMBDA order :
                      evaluate_phases(
                          inner_reports(ev, source_path, collected, order),
                          fs, source_path, ast, import_stack,
                          collected.declarations, order.sorted)))

(***************************************************************************)
(* Evaluator::reset and Evaluator::evaluate.  order is the order in which  *)
(* HashMap::values yields the registered files: any permutation of them.   *)
(***************************************************************************)
reset(ev) == [ev EXCEPT !.instances = EmptyMap, !.diagnostics = EmptyMap]

RECURSIVE evaluate_files(_, _, _, _, _)
evaluate_files(ev, fs, sources, order, i) ==
    IF i > Len(order) THEN ev
    ELSE evaluate_files(evaluate_inner(ev, fs, order[i], sources[order[i]], <<>>),
                        fs, sources, order, i + 1)

evaluate(ev, fs, order) ==
    LET files_to_evaluate == ev.files
    IN  evaluate_files(reset(ev), fs, files_to_evaluate, order, 1)

NewEvaluator ==
    [instances |-> EmptyMap, diagnostics |-> EmptyMap, files |-> EmptyMap, log |-> <<>>]

\* Evaluator::set_source and Evaluator::remove_source.
evaluator_set_source(ev, fs, path, source, order) ==
    evaluate([ev EXCEPT !.files = Insert(@, path, source), !.log = <<>>], fs, order)

evaluator_remove_source(ev, fs, path, order) ==
    evaluate([ev EXCEPT !.files = Remove(@, path), !.log = <<>>], fs, order)

(***************************************************************************)
(* The host's inputs: two files of one directory, and the statement trees  *)
(* the host may register for each of them or the disk may hold.            *)
(*                                                                         *)
(*   a.ato (A1)                       b.ato (B1)                           *)
(*     from "b.ato" import X            from "a.ato" import T              *)
(*     module T: signal s               interface X: signal a; signal b    *)
(*     module M: t = new T              module K: i = new X; j = new X     *)
(*     module N: x = new X                        i ~ j                    *)
(*   a.ato (A2)                       b.ato (B2)                           *)
(*     module P: signal a; signal b     interface X: signal a              *)
(*               a ~ b                  module K: i = new X                *)
(*     module C from P: c = new P                                          *)
(***************************************************************************)
FileA == <<"/", "p", "a.ato">>

FileB == <<"/", "p", "b.ato">>

Paths == {FileA, FileB}

A1 == << Import(<<"b.ato">>, <<"X">>),
         Block("Module", "T", None, <<Signal("s")>>),
         Block("Module", "M", None, <<Assign(<<"t">>, New("T"))>>),
         Block("Module", "N", None, <<Assign(<<"x">>, New("X"))>>) >>

A2 == << Block("Module", "P", None,
               <<Signal("a"), Signal("b"),
                 Connect(ConnPort(<<"a">>), ConnPort(<<"b">>))>>),
         Block("Module", "C", "P", <<Assign(<<"c">>, New("P"))>>) >>

B1 == << Import(<<"a.ato">>, <<"T">>),
         Block("Interface", "X", None, <<Signal("a"), Signal("b")>>),
         Block("Module", "K", None,
               <<Assign(<<"i">>, New("X")), Assign(<<"j">>, New("X")),
                 Connect(ConnPort(<<"i">>), ConnPort(<<"j">>))>>) >>

B2 == << Block("Interface", "X", None, <<Signal("a")>>),
         Block("Module", "K", None, <<Assign(<<"i">>, New("X"))>>) >>

Sources(path) == IF path = FileA THEN {A1, A2} ELSE {B1, B2}

\* The file systems of the model: each file is absent or holds one of its
\* statement trees.
Disks ==
    UNION {{d \in [S -> {A1, A2, B1, B2}] : \A f \in S : d[f] \in Sources(f)} :
           S \in SUBSET Paths}

(***************************************************************************)
(* The Evaluator as the host drives it.                                    *)
(***************************************************************************)
Evaluator == [instances |-> instances, diagnostics |-> diagnostics, files |-> files,
              log |-> <<>>]

Idle == /\ instance = None
        /\ file_scope = EmptyMap
        /\ declarations = <<>>
        /\ sorted = <<>>
        /\ to_evaluate = <<>>
        /\ frames = <<>>
        /\ log = <<>>
        /\ last_diagnostics = {}
        /\ published = EmptyMap

\* No pass is followed activation by activation.
Atomic == UNCHANGED <<to_evaluate, frames, log>>

Init ==
    /\ files = EmptyMap
    /\ instances = EmptyMap
    /\ diagnostics = EmptyMap
    /\ disk \in Disks
    /\ registered = {}
    /\ op = [name |-> "new"]
    /\ Idle

Installed(ev) ==
    /\ files' = ev.files
    /\ instances' = ev.instances
    /\ diagnostics' = ev.diagnostics
    /\ UNCHANGED <<disk, last_diagnostics, published, instance, file_scope, declarations, sorted>>
    /\ Atomic

set_source(path, source) ==
    \E order \in Perms(DOMAIN files \cup {path}) :
        /\ \E ev \in {evaluator_set_source(Evaluator, disk, path, source, order)} :
               Installed(ev)
        /\ registered' = registered \cup {path}
        /\ op' = [name |-> "set_source", path |-> path, order |-> order]

remove_source(path) ==
    \E order \in Perms(DOMAIN files \ {path}) :
        /\ \E ev \in {evaluator_remove_source(Evaluator, disk, path, order)} :
               Installed(ev)
        /\ registered' = registered \ {path}
        /\ op' = [name |-> "remove_source", path |-> path, order |-> order]

Next ==
    \/ \E path \in Paths : \E source \in Sources(path) : set_source(path, source)
    \/ \E path \in Paths : remove_source(path)

Spec == Init /\ [][Next]_vars

(***************************************************************************)
(* Passes compared: over the orders of one file set, and against an        *)
(* Evaluator constructed anew.                                             *)
(***************************************************************************)
\* C1: for a fixed set of files, a full pass yields the same instance
\* graph whatever the order in which it iterates over the files.
C1_OrderIndependent ==
    \A first, second \in Perms(DOMAIN files) :
        evaluate(Evaluator, disk, first).instances =
            evaluate(Evaluator, disk, second).instances

\* The results of setting the files of the set todo, with their current
\* sources, on the evaluator ev: in any order of the calls, with any
\* iteration order of the passes.
RECURSIVE SetEach(_, _)
SetEach(ev, todo) ==
    IF todo = {} THEN {ev}
    ELSE UNION {UNION {SetEach(evaluator_set_source(ev, disk, path, files[path], order),
                               todo \ {path}) :
                           order \in Perms(DOMAIN ev.files \cup {path})} :
                   path \in todo}

\* C2: after any sequence of set_source and remove_source, the store and
\* the diagnostics are those of a new Evaluator on which only the files
\* registered now were set.
C2_FromScratch ==
    \E fresh \in SetEach(NewEvaluator, registered) :
        /\ fresh.instances = instances
        /\ fresh.diagnostics = diagnostics

(***************************************************************************)
(* Import cycles.                                                          *)
(***************************************************************************)
\* The import paths a file names.
ImportPaths(ast) ==
    {ast[i].from_path : i \in {j \in DOMAIN ast : ast[j].tag \in {"Import", "DepImport"}}}

\* The symbols a file imports.
ImportedSymbols(ast) ==
    UNION {Range(ast[i].imports) : i \in {j \in DOMAIN ast : ast[j].tag = "Import"}}
        \cup {ast[i].name : i \in {j \in DOMAIN ast : ast[j].tag = "DepImport"}}

\* The two files are loaded and each holds an import that resolves to the
\* other.
MutualImport ==
    /\ DOMAIN files = {FileA, FileB}
    /\ \E import_path \in ImportPaths(files[FileA]) :
           FileB = resolve_import_path(disk, FileA, import_path)
    /\ \E import_path \in ImportPaths(files[FileB]) :
           FileA = resolve_import_path(disk, FileB, import_path)

\* The types a block names: its parent and the types it instantiates.
TypesNamed(block) ==
    {block.parent} \cup
    {block.body[i].value.text :
        i \in {j \in DOMAIN block.body :
                  block.body[j].tag = "Assign" /\ block.body[j].value.tag = "New"}}

\* The children the body of a block declares.
DeclaredChildren(block) ==
    {block.body[i].target[1] :
        i \in {j \in DOMAIN block.body :
                  block.body[j].tag = "Assign" /\ block.body[j].value.tag = "New"}}
    \cup {block.body[i].name :
             i \in {j \in DOMAIN block.body : block.body[j].tag \in {"Signal", "Pin"}}}

\* The ImportCycle diagnostics of all files.
ImportCycles ==
    {<<path, i>> \in UNION {{path} \X DOMAIN diagnostics[path] :
                               path \in DOMAIN diagnostics} :
        diagnostics[path][i].kind = "ImportCycle"}

\* Every block that names no imported symbol has its root instance in the
\* store, with the children its body declares.
IndependentBlocksBuilt ==
    \A path \in DOMAIN files :
        \A i \in DOMAIN files[path] :
            ( /\ files[path][i].tag = "Block"
              /\ TypesNamed(files[path][i]) \cap ImportedSymbols(files[path]) = {} ) =>
                /\ RootRef(ModuleRef(path, files[path][i].name)) \in DOMAIN instances
                /\ DOMAIN instances[RootRef(ModuleRef(path, files[path][i].name))].children
                       = DeclaredChildren(files[path][i])

\* C10: when two files import a symbol from each other, a pass ends with
\* exactly one ImportCycle diagnostic in total, and every block of both
\* files that does not depend on the cyclically imported symbol is in the
\* store with the children its body declares.
C10_ImportCycle ==
    MutualImport =>
        /\ Cardinality(ImportCycles) = 1
        /\ IndependentBlocksBuilt

(***************************************************************************)
(* evaluate_inner on one file of block declarations, step by step: the     *)
(* phases before the blocks (inner_begin), then one block of the sorted    *)
(* order at a time (inner_block).                                          *)
(***************************************************************************)
MaxDecls == 3

SortNames == {"A", "B", "C"}

SortBlocks ==
    {Block("Module", name, parent, <<Pass>>) :
        name \in SortNames, parent \in {None} \cup SortNames}

SortFiles == UNION {[1..n -> SortBlocks] : n \in 0..MaxDecls}

InitSort ==
    /\ files \in {(FileA :> ast) : ast \in SortFiles}
    /\ instances = EmptyMap
    /\ diagnostics = EmptyMap
    /\ disk = EmptyMap
    /\ registered = {}
    /\ op = [name |-> "new"]
    /\ Idle

\* Phases 1 to 4 of evaluate_inner.
inner_begin(path) ==
    /\ op.name = "new"
    /\ \E collected \in {collect_block_declarations(files[path])} :
       \E order \in {sort_blocks(collected.declarations)} :
       \E r4 \in {top_stmts(inner_reports(Evaluator, path, collected, order),
                            disk, path, <<>>,
                            preregister(EmptyMap, path, collected.declarations, 1),
                            files[path], 1)} :
           /\ declarations' = collected.declarations
           /\ sorted' = order.sorted
           /\ instances' = r4.ev.instances
           /\ diagnostics' = r4.ev.diagnostics
           /\ file_scope' = r4.symbols
    /\ op' = [name |-> "sort_blocks", path |-> path, evaluated |-> <<>>]
    /\ UNCHANGED <<files, disk, last_diagnostics, published, registered, instance>>
    /\ Atomic

\* One iteration of phase 5.
inner_block ==
    /\ op.name \in {"sort_blocks", "evaluate_block", "block_end"}
    /\ Len(op.evaluated) < Len(sorted)
    /\ \E block \in {declarations[sorted[Len(op.evaluated) + 1]]} :
       \E r \in {evaluate_block(Evaluator, file_scope, op.path, block.stmt)} :
           /\ instances' = r.ev.instances
           /\ diagnostics' =
                  IF r.err # Ok
                  THEN report(r.ev, r.err.kind, op.path, r.err.detail).diagnostics
                  ELSE r.ev.diagnostics
           /\ file_scope' = r.symbols
           /\ op' = [name |-> "evaluate_block", path |-> op.path,
                     evaluated |-> Append(op.evaluated, block.name)]
    /\ UNCHANGED <<files, disk, last_diagnostics, published, registered, instance, declarations, sorted>>
    /\ Atomic

NextSort ==
    \/ \E path \in DOMAIN files : inner_begin(path)
    \/ inner_block

SpecSort == InitSort /\ [][NextSort]_vars

(***************************************************************************)
(* evaluate_block on the last block of a file, statement by statement.     *)
(* The file declares the types below and a block M, plain or inheriting    *)
(* from T, whose body is read one statement at a time:                     *)
(*                                                                         *)
(*   interface X: signal a; signal b                                       *)
(*   interface Y: signal a                                                 *)
(*   module T: x = new X; y = new X; x ~ y; x.a ~ x.b; v = "1"             *)
(*   module M [from T]: ...                                                *)
(*                                                                         *)
(* The file may begin with a statement that is no top-level statement and  *)
(* a block whose parent is declared nowhere (Broken): both fail, in phase  *)
(* 4 and in phase 5, before the blocks above are evaluated.                *)
(*                                                                         *)
(* A block that inherits from T also reads the statements that write to a  *)
(* child it inherited (Overrides).  A second file holds the types          *)
(*                                                                         *)
(*   interface IF: pass                                                    *)
(*   module MOD: if = new IF                                               *)
(*   module P: a = new MOD                                                 *)
(*   module M from P: ...                                                  *)
(*                                                                         *)
(* and its block M reads the statements of ScenarioStmts.  In two more     *)
(* files M is a component: declared before the types above (Forward), or   *)
(* after them and inheriting from the module T; it reads the `new`         *)
(* assignments of ComponentStmts.                                          *)
(*                                                                         *)
(* block_enter is evaluate_block up to the checkout of the root instance,  *)
(* block_stmt one iteration of its loop, block_leave the reinsertion.      *)
(***************************************************************************)
MaxStmts == 3

Prelude ==
    << Block("Interface", "X", None, <<Signal("a"), Signal("b")>>),
       Block("Interface", "Y", None, <<Signal("a")>>),
       Block("Module", "T", None,
             << Assign(<<"x">>, New("X")), Assign(<<"y">>, New("X")),
                Connect(ConnPort(<<"x">>), ConnPort(<<"y">>)),
                Connect(ConnPort(<<"x", "a">>), ConnPort(<<"x", "b">>)),
                Assign(<<"v">>, Expr("String", "1")) >>) >>

BlockStmts ==
    { Assign(<<"x">>, New("X")),
      Assign(<<"y">>, New("X")),
      Assign(<<"z">>, New("Y")),
      Assign(<<"t">>, New("T")),
      Assign(<<"t", "v">>, Expr("String", "2")),
      Connect(ConnPort(<<"x", "a">>), ConnPort(<<"x", "b">>)),
      Connect(ConnPort(<<"t", "x", "a">>), ConnPort(<<"t", "x", "b">>)),
      Connect(ConnPort(<<"x">>), ConnPort(<<"y">>)),
      Connect(ConnPort(<<"x">>), ConnPort(<<"z">>)),
      Connect(ConnPort(<<"t">>), ConnPort(<<"x", "a">>)),
      Connect(ConnPin("1"), ConnSignal("s")) }

Overrides ==
    { Assign(<<"x", "v">>, Expr("String", "2")),
      Signal("x") }

Scenario ==
    << Block("Interface", "IF", None, <<Pass>>),
       Block("Module", "MOD", None, <<Assign(<<"if">>, New("IF"))>>),
       Block("Module", "P", None, <<Assign(<<"a">>, New("MOD"))>>) >>

ScenarioStmts ==
    { Assign(<<"b">>, New("MOD")),
      Assign(<<"a">>, New("MOD")),
      Pin("1"),
      Connect(ConnPort(<<"b", "if">>), ConnPort(<<"a", "if">>)) }

ComponentStmts ==
    { Assign(<<"x">>, New("X")),
      Assign(<<"z">>, New("Y")),
      Assign(<<"m">>, New("M")),
      Assign(<<"z">>, New("U")),
      Assign(<<"x", "y">>, New("X")),
      Connect(ConnSignal("s"), ConnPort(<<"x">>)) }

\* The statements the body of a block is drawn from.
BodyStmts(block) ==
    CASE block.kind = "Component" -> ComponentStmts
      [] block.parent = "P" -> ScenarioStmts
      [] block.parent = "T" -> BlockStmts \cup Overrides
      [] OTHER -> BlockStmts

Broken == << Pass, Block("Module", "Q", "Z", <<Signal("s")>>) >>

Forward == <<Block("Component", "M", None, <<>>)>> \o Prelude

BlockFiles ==
    {broken \o Prelude \o <<Block("Module", "M", parent, <<>>)>> :
        broken \in {<<>>, Broken}, parent \in {None, "T"}}
    \cup {Scenario \o <<Block("Module", "M", "P", <<>>)>>}
    \cup {Forward, Prelude \o <<Block("Component", "M", "T", <<>>)>>}

InitBlock ==
    /\ files \in {(FileA :> ast) : ast \in BlockFiles}
    /\ instances = EmptyMap
    /\ diagnostics = EmptyMap
    /\ disk = EmptyMap
    /\ registered = {}
    /\ op = [name |-> "new"]
    /\ Idle

\* The block of the sorted order that is evaluated next.
next_block == declarations[sorted[Len(op.evaluated) + 1]]

block_enter ==
    /\ op.name \in {"sort_blocks", "evaluate_block", "block_end"}
    /\ Len(op.evaluated) < Len(sorted)
    /\ next_block.stmt.body = <<>>
    /\ \E b \in {block_begin(instances, file_scope, op.path, next_block.stmt)} :
           /\ b.err = Ok
           /\ instances' = b.instances
           /\ instance' = b.instance
    /\ op' = [name |-> "block_begin", path |-> op.path, evaluated |-> op.evaluated,
              block |-> next_block.stmt, location |-> next_block.location,
              origin |-> instances, errs |-> <<>>]
    /\ UNCHANGED <<files, diagnostics, disk, last_diagnostics, published, registered, file_scope, declarations,
                   sorted>>
    /\ Atomic

block_stmt(stmt) ==
    /\ op.name \in {"block_begin", "evaluate_block_stmt"}
    /\ Len(op.block.body) < MaxStmts
    /\ stmt \in BodyStmts(op.block)
    /\ \E r \in {evaluate_block_stmt(instances, file_scope, instance,
                                     ModuleRef(op.path, op.block.name), stmt)} :
           /\ instances' = r.instances
           /\ instance' = r.instance
           /\ diagnostics' =
                  IF r.err # Ok
                  THEN report(Evaluator, r.err.kind, op.path, r.err.detail).diagnostics
                  ELSE diagnostics
           /\ op' = [name |-> "evaluate_block_stmt", path |-> op.path,
                     evaluated |-> op.evaluated,
                     block |-> [op.block EXCEPT !.body = Append(@, stmt)],
                     location |-> op.location, origin |-> op.origin,
                     errs |-> Append(op.errs, r.err),
                     stmt |-> stmt, err |-> r.err,
                     before |-> instances, before_instance |-> instance]
    /\ files' = [files EXCEPT ![op.path][op.location].body = Append(@, stmt)]
    /\ UNCHANGED <<disk, last_diagnostics, published, registered, file_scope, declarations, sorted>>
    /\ Atomic

block_leave ==
    /\ op.name \in {"block_begin", "evaluate_block_stmt"}
    /\ instances' = block_end(instances, instance, ModuleRef(op.path, op.block.name))
    /\ instance' = None
    /\ file_scope' = scope_define(file_scope, op.block.name,
                                  ModuleRef(op.path, op.block.name))
    /\ op' = [name |-> "block_end", path |-> op.path,
              evaluated |-> Append(op.evaluated, op.block.name),
              block |-> op.block, origin |-> op.origin, errs |-> op.errs]
    /\ UNCHANGED <<files, diagnostics, disk, last_diagnostics, published, registered, declarations, sorted>>
    /\ Atomic

NextBlock ==
    \/ \E path \in DOMAIN files : inner_begin(path)
    \/ inner_block
    \/ block_enter
    \/ \E stmt \in BlockStmts \cup Overrides \cup ScenarioStmts \cup ComponentStmts :
          block_stmt(stmt)
    \/ block_leave

SpecBlock == InitBlock /\ [][NextBlock]_vars

(***************************************************************************)
(* What one statement of the open block did, read off the state.           *)
(***************************************************************************)
\* The state follows a statement of the open block.
AfterStmt == op.name = "evaluate_block_stmt"

AfterStmtOf(tag) == AfterStmt /\ op.stmt.tag = tag

OpenModule == ModuleRef(op.path, op.block.name)

OpenRoot == RootRef(OpenModule)

\* Every instance that can hold a connection: the store and the root
\* instance of the open block, which is checked out of it.
Holders == DOMAIN instances \cup {OpenRoot}

ConnectionsOf(store, root, ref) ==
    IF ref = OpenRoot THEN root.connections
    ELSE IF ref \in DOMAIN store THEN store[ref].connections
    ELSE <<>>

\* The connections the statement appended to the instance at ref.
AppendedAt(ref) ==
    DropFirst(ConnectionsOf(instances, instance, ref),
              Len(ConnectionsOf(op.before, op.before_instance, ref)))

\* The statement left the connections that were there in place.
ConnectionsKept ==
    \A ref \in Holders :
        starts_with(ConnectionsOf(instances, instance, ref),
                    ConnectionsOf(op.before, op.before_instance, ref))

RECURSIVE SumOver(_, _)
SumOver(S, f) ==
    IF S = {} THEN 0
    ELSE LET x == CHOOSE y \in S : TRUE IN f[x] + SumOver(S \ {x}, f)

AppendedTotal == SumOver(Holders, [ref \in Holders |-> Len(AppendedAt(ref))])

\* How often the statement appended connection c, over all instances.
AppendedTimes(c) ==
    SumOver(Holders,
            [ref \in Holders |->
                Cardinality({i \in DOMAIN AppendedAt(ref) : AppendedAt(ref)[i] = c})])

LeftRef == connectable_ref(OpenModule, op.stmt.left)

RightRef == connectable_ref(OpenModule, op.stmt.right)

\* Both endpoints of the connect statement resolve to an instance.
EndpointsResolve == LeftRef \in DOMAIN instances /\ RightRef \in DOMAIN instances

(***************************************************************************)
(* Clone fidelity.                                                         *)
(***************************************************************************)
\* The instances of the subtree rooted at ref.
RECURSIVE Subtree(_, _)
Subtree(store, ref) ==
    IF ref \notin DOMAIN store THEN {}
    ELSE {ref} \cup UNION {Subtree(store, store[ref].children[n]) :
                              n \in DOMAIN store[ref].children}

\* ref with the prefix from.path replaced by to.path, in to's module.
Image(ref, from, to) ==
    InstanceRef(to.module,
                to.instance_path \o DropFirst(ref.instance_path, Len(from.instance_path)))

Fidelity(before, after, from, to) ==
    /\ DOMAIN after \ DOMAIN before = {Image(s, from, to) : s \in Subtree(before, from)}
    /\ Cardinality(DOMAIN after \ DOMAIN before) = Cardinality(Subtree(before, from))
    /\ \A s \in Subtree(before, from) :
          /\ after[Image(s, from, to)].kind = before[s].kind
          /\ after[Image(s, from, to)].type_ref = before[s].type_ref
          /\ after[Image(s, from, to)].attributes = before[s].attributes
          /\ DOMAIN after[Image(s, from, to)].children = DOMAIN before[s].children
          /\ Len(after[Image(s, from, to)].connections) = Len(before[s].connections)
          /\ \A i \in DOMAIN before[s].connections :
                after[Image(s, from, to)].connections[i] =
                    Connection(Image(before[s].connections[i].left, from, to),
                               Image(before[s].connections[i].right, from, to))

ConnectionsIn(store, refs) ==
    SumOver(refs, [ref \in refs |-> Len(store[ref].connections)])

\* The statement was a successful `name = new Type`.
AfterNew == AfterStmtOf("Assign") /\ op.stmt.value.tag = "New" /\ op.err = Ok

NewFrom == RootRef(file_scope[op.stmt.value.text])

NewTo == InstanceRef(OpenModule, op.stmt.target)

\* C3: clone_instance(from, to) on a subtree of N instances and M
\* connections adds exactly N instances, the one at to.path ++ s for the
\* one at from.path ++ s, with its kind, type_ref, attributes and child
\* names, and its connections with both endpoints moved from under from
\* to under to.
C3_CloneFidelity ==
    AfterNew => Fidelity(op.before, instances, NewFrom, NewTo)

\* `t = new T` cloned the seven instances and three connections of T.
C3_Witness ==
    /\ AfterNew
    /\ op.stmt.value.text = "T"
    /\ Cardinality(DOMAIN instances \ DOMAIN op.before) = 7
    /\ ConnectionsIn(instances, DOMAIN instances \ DOMAIN op.before) = 3

\* C4: after `x = new T` or `module C from P`, no later statement on the
\* clone changes an instance of the original: every instance that was in
\* the store when the block was entered is still there, as it was.
C4_OriginalUnchanged ==
    AfterStmt =>
        \A ref \in DOMAIN op.origin :
            ref \in DOMAIN instances /\ instances[ref] = op.origin[ref]

\* An attribute of the clone of T was assigned, or a connection was filed
\* under the clone of T.x, and the clone now differs from its original.
C4_Witness ==
    /\ AfterStmt
    /\ op.err = Ok
    /\ \/ /\ op.stmt = Assign(<<"t", "v">>, Expr("String", "2"))
          /\ instances[InstanceRef(OpenModule, <<"t">>)].attributes #
                 instances[RootRef(ModuleRef(op.path, "T"))].attributes
       \/ /\ op.block.parent = "T"
          /\ op.stmt = Connect(ConnPort(<<"x", "a">>), ConnPort(<<"x", "b">>))
          /\ instances[InstanceRef(OpenModule, <<"x">>)].connections #
                 instances[InstanceRef(ModuleRef(op.path, "T"), <<"x">>)].connections

\* The kinds of the two endpoints allow a connection.
KindsAllowed ==
    \/ /\ instances[LeftRef].kind \in {"Port", "Pin"}
       /\ instances[RightRef].kind \in {"Port", "Pin"}
    \/ /\ instances[LeftRef].kind = "Interface"
       /\ instances[RightRef].kind = "Interface"
       /\ instances[LeftRef].type_ref = instances[RightRef].type_ref

\* C7: `left ~ right` appends Connections only when both endpoints are a
\* Port or a Pin, or both are Interfaces of one type_ref; for every other
\* pair it reports InvalidAssignment and appends no Connection to any
\* instance.
C7_KindValidation ==
    (AfterStmtOf("Connect") /\ EndpointsResolve) =>
        /\ ConnectionsKept
        /\ AppendedTotal > 0 => KindsAllowed
        /\ ~KindsAllowed => op.err.kind = "InvalidAssignment" /\ AppendedTotal = 0

\* A Module was connected to a Port, or two Interfaces of different types.
C7_Witness ==
    /\ AfterStmtOf("Connect")
    /\ EndpointsResolve
    /\ op.err.kind = "InvalidAssignment"
    /\ \/ /\ instances[LeftRef].kind = "Module"
          /\ instances[RightRef].kind = "Port"
       \/ /\ instances[LeftRef].kind = "Interface"
          /\ instances[RightRef].kind = "Interface"
          /\ instances[LeftRef].type_ref # instances[RightRef].type_ref

\* C8: connecting two Interfaces of one type_ref with k children each
\* produces exactly k Connections, one per child name, from the left
\* interface's child to the right interface's child of that name.
C8_InterfaceExpansion ==
    ( /\ AfterStmtOf("Connect")
      /\ EndpointsResolve
      /\ instances[LeftRef].kind = "Interface"
      /\ instances[RightRef].kind = "Interface"
      /\ instances[LeftRef].type_ref = instances[RightRef].type_ref
      /\ DOMAIN instances[LeftRef].children = DOMAIN instances[RightRef].children ) =>
        /\ op.err = Ok
        /\ ConnectionsKept
        /\ AppendedTotal = Cardinality(DOMAIN instances[LeftRef].children)
        /\ \A n \in DOMAIN instances[LeftRef].children :
               AppendedTimes(Connection(instances[LeftRef].children[n],
                                        instances[RightRef].children[n])) = 1

\* Two instances of `interface X: signal a; signal b` were connected:
\* two Connections, a to a and b to b.
C8_Witness ==
    /\ AfterStmtOf("Connect")
    /\ op.stmt = Connect(ConnPort(<<"x">>), ConnPort(<<"y">>))
    /\ op.err = Ok
    /\ AppendedTotal = 2
    /\ AppendedTimes(Connection(InstanceRef(OpenModule, <<"x", "a">>),
                                InstanceRef(OpenModule, <<"y", "a">>))) = 1
    /\ AppendedTimes(Connection(InstanceRef(OpenModule, <<"x", "b">>),
                                InstanceRef(OpenModule, <<"y", "b">>))) = 1

\* path is the longest common prefix of left and right.
LongestCommonPrefix(path, left, right) ==
    /\ starts_with(left, path)
    /\ starts_with(right, path)
    /\ \/ Len(path) = Len(left)
       \/ Len(path) = Len(right)
       \/ left[Len(path) + 1] # right[Len(path) + 1]

\* C9: every Connection a connect statement produces is appended to
\* exactly one instance, the one of the open block whose path is the
\* longest common prefix of the endpoint paths: the block's root instance
\* when that prefix is empty.
C9_CommonAncestor ==
    AfterStmtOf("Connect") =>
        /\ ConnectionsKept
        /\ \A ref \in Holders :
               \A i \in DOMAIN AppendedAt(ref) :
                   /\ ref.module = OpenModule
                   /\ LongestCommonPrefix(ref.instance_path,
                                          AppendedAt(ref)[i].left.instance_path,
                                          AppendedAt(ref)[i].right.instance_path)
                   /\ AppendedTimes(AppendedAt(ref)[i]) = 1

\* `x.a ~ x.b` filed its Connection on x and not on the block's root.
C9_Witness ==
    /\ AfterStmtOf("Connect")
    /\ op.stmt = Connect(ConnPort(<<"x", "a">>), ConnPort(<<"x", "b">>))
    /\ op.err = Ok
    /\ AppendedAt(InstanceRef(OpenModule, <<"x">>)) =
           <<Connection(InstanceRef(OpenModule, <<"x", "a">>),
                        InstanceRef(OpenModule, <<"x", "b">>))>>
    /\ AppendedAt(OpenRoot) = <<>>

(***************************************************************************)
(* The inheritance relation of a file, read off its statements.            *)
(***************************************************************************)
\* The non-duplicate declarations: the first block of every name.
Kept(ast) ==
    {i \in DOMAIN ast :
        /\ ast[i].tag = "Block"
        /\ \A j \in 1..(i - 1) : ast[j].tag = "Block" => ast[j].name # ast[i].name}

\* The kept declaration of the parent of declaration i, 0 when it has none
\* in the file.
ParentIn(ast, i) ==
    IF \E j \in Kept(ast) : ast[j].name = ast[i].parent
    THEN CHOOSE j \in Kept(ast) : ast[j].name = ast[i].parent
    ELSE 0

RECURSIVE AncestorAt(_, _, _)
AncestorAt(ast, i, n) ==
    IF i = 0 \/ n = 0 THEN i ELSE AncestorAt(ast, ParentIn(ast, i), n - 1)

CycleOf(ast, i) == {AncestorAt(ast, i, n) : n \in 1..Len(ast)}

OnCycle(ast, i) == i \in CycleOf(ast, i)

\* One representative for every inheritance cycle of the file.
Cycles(ast) ==
    {i \in Kept(ast) : OnCycle(ast, i) /\ \A j \in CycleOf(ast, i) : i <= j}

\* The locations sort_blocks returned, in order.
SortedLocations == [k \in DOMAIN sorted |-> declarations[sorted[k]].location]

\* sort_blocks returned every non-duplicate declaration exactly once.
EveryKeptOnce(ast) ==
    /\ Len(sorted) = Cardinality(Kept(ast))
    /\ Range(SortedLocations) = Kept(ast)

Position(location) == CHOOSE k \in DOMAIN sorted : SortedLocations[k] = location

CountOf(diags, kind) == Cardinality({i \in DOMAIN diags : diags[i].kind = kind})

\* C5: for a file whose inheritance relation has no cycle, sort_blocks
\* returns every non-duplicate declaration exactly once, each after its
\* parent when the parent is declared in the file, whatever the textual
\* order; the blocks are evaluated in that order.
C5_ParentBeforeChild ==
    (op.name # "new" /\ Cycles(files[op.path]) = {}) =>
        /\ EveryKeptOnce(files[op.path])
        /\ \A i \in Kept(files[op.path]) :
               ParentIn(files[op.path], i) # 0 =>
                   Position(ParentIn(files[op.path], i)) < Position(i)
        /\ op.evaluated =
               [k \in 1..Len(op.evaluated) |-> files[op.path][SortedLocations[k]].name]

\* The child is written before its parent, and both have been evaluated.
C5_Witness ==
    /\ op.name = "evaluate_block"
    /\ files[op.path] = << Block("Module", "B", "A", <<Pass>>),
                           Block("Module", "A", None, <<Pass>>) >>
    /\ op.evaluated = <<"A", "B">>

\* C6: for any declarations of one file, sort_blocks returns, reporting
\* exactly one CyclicInheritance diagnostic for each inheritance cycle
\* (a block naming itself as parent included), and still returns every
\* non-duplicate declaration exactly once.
C6_OneDiagnosticPerCycle ==
    op.name # "new" =>
        /\ CountOf(diagnostics[op.path], "CyclicInheritance") =
               Cardinality(Cycles(files[op.path]))
        /\ EveryKeptOnce(files[op.path])

\* `module A from B` + `module B from A`, with a self-parented block: two
\* cycles, two diagnostics.
C6_Witness ==
    /\ op.name = "sort_blocks"
    /\ files[op.path] = << Block("Module", "A", "B", <<Pass>>),
                           Block("Module", "B", "A", <<Pass>>),
                           Block("Module", "C", "C", <<Pass>>) >>
    /\ CountOf(diagnostics[op.path], "CyclicInheritance") = 2
    /\ Len(sorted) = 3

(***************************************************************************)
(* Failures do not abort: the statements of a body, the top-level          *)
(* statements of a file and its blocks are all evaluated.                  *)
(***************************************************************************)
\* How many of the statements evaluated so far failed.
Failed(errs) == Cardinality({i \in DOMAIN errs : errs[i] # Ok})

\* The top-level statements evaluate_top_stmt rejects.
TopLevelFailures(ast) ==
    Cardinality({i \in DOMAIN ast :
                    ast[i].tag \notin {"Block", "Import", "DepImport", "Comment",
                                       "ParseError"}})

\* The blocks of a file without imports whose parent is declared nowhere.
UnresolvedParents(ast) ==
    Cardinality({i \in Kept(ast) : ast[i].parent # None /\ ParentIn(ast, i) = 0})

\* evaluate_inner on the file as it stands, in one call.
InOneCall(path) ==
    evaluate_inner([NewEvaluator EXCEPT !.files = files], disk, path, files[path], <<>>)

\* C11: in a block whose root instance was created, every body statement
\* is evaluated in order whether or not an earlier one failed, each failing
\* statement adds exactly one diagnostic, and the root instance is in the
\* store afterwards; the top-level statements and the sorted blocks of the
\* file are evaluated whether or not an earlier one failed: the outcome is
\* that of evaluate_inner on the whole file.
C11_NothingAborts ==
    op.name \in {"evaluate_block_stmt", "block_end"} =>
        /\ Len(op.errs) = Len(op.block.body)
        /\ Len(diagnostics[op.path]) =
               TopLevelFailures(files[op.path]) + UnresolvedParents(files[op.path])
                   + Failed(op.errs)
        /\ \A i \in Kept(files[op.path]) :
               ( /\ files[op.path][i].parent = None
                 /\ files[op.path][i].name \in Range(op.evaluated) )
                   => RootRef(ModuleRef(op.path, files[op.path][i].name)) \in DOMAIN instances
        /\ op.name = "block_end" =>
               RootRef(ModuleRef(op.path, op.block.name)) \in DOMAIN instances
        /\ (op.name = "block_end" /\ Len(op.evaluated) = Len(sorted)) =>
               /\ \E ev \in {InOneCall(op.path)} :
                      /\ ev.instances = instances
                      /\ ev.diagnostics = diagnostics

\* The file begins with two failures; in M, `x ~ y` failed because x does
\* not exist yet, and the next statement `x = new X` created it.
C11_Witness ==
    /\ op.name = "block_end"
    /\ files[op.path][1] = Pass
    /\ op.block.parent = None
    /\ Len(op.errs) = 3
    /\ op.block.body[1] = Connect(ConnPort(<<"x">>), ConnPort(<<"y">>))
    /\ op.errs[1].kind = "InvalidConnection"
    /\ op.block.body[2] = Assign(<<"x">>, New("X"))
    /\ op.errs[2] = Ok
    /\ "x" \in DOMAIN instances[RootRef(ModuleRef(op.path, "M"))].children
    /\ Len(diagnostics[op.path]) >= 3

(***************************************************************************)
(* Inheritance: the root instance of `module C from P`.                    *)
(***************************************************************************)
\* The open block inherits and its root instance was seeded.
Inheriting ==
    /\ op.name \in {"block_begin", "evaluate_block_stmt", "block_end"}
    /\ op.block.parent # None

ParentRoot == RootRef(file_scope[op.block.parent])

\* The root instance of the open block, checked out while its body runs.
OpenInstance == IF op.name = "block_end" THEN instances[OpenRoot] ELSE instance

\* The instance at `to` and all beneath it have the kind, the attributes
\* and the child names of the instance at `from` and all beneath it.
IsClone(before, from, after, to) ==
    /\ Subtree(after, to) = {Image(s, from, to) : s \in Subtree(before, from)}
    /\ \A s \in Subtree(before, from) :
          /\ after[Image(s, from, to)].kind = before[s].kind
          /\ after[Image(s, from, to)].attributes = before[s].attributes
          /\ DOMAIN after[Image(s, from, to)].children = DOMAIN before[s].children

\* The bare signals and pins a connect statement names.
Implicit(stmt) ==
    {c.parts[1] : c \in {d \in {stmt.left, stmt.right} : d.tag \in {"Signal", "Pin"}}}

\* The child names a body statement adds to the root instance.
DeclaredBy(stmt, err) ==
    CASE stmt.tag = "Assign" ->
            IF stmt.value.tag = "New" /\ err = Ok THEN {stmt.target[1]} ELSE {}
      [] stmt.tag \in {"Signal", "Pin"} -> {stmt.name}
      [] stmt.tag = "Connect" -> Implicit(stmt)
      [] OTHER -> {}

DeclaredByBody ==
    UNION {DeclaredBy(op.block.body[i], op.errs[i]) : i \in DOMAIN op.block.body}

\* The children of the root instance a body statement writes to: the first
\* name of the target of an attribute assignment, the name a signal or pin
\* statement or a bare signal or pin of a connect statement declares anew.
WrittenBy(stmt) ==
    CASE stmt.tag = "Assign" ->
            IF stmt.value.tag # "New" /\ Len(stmt.target) >= 2
            THEN {stmt.target[1]} ELSE {}
      [] stmt.tag \in {"Signal", "Pin"} -> {stmt.name}
      [] stmt.tag = "Connect" -> Implicit(stmt)
      [] OTHER -> {}

WrittenByBody == UNION {WrittenBy(op.block.body[i]) : i \in DOMAIN op.block.body}

Inherited == DOMAIN op.origin[ParentRoot].children

\* The end-to-end scenario: M from P with the body `b = new MOD` has the
\* children a and b, both of type MOD, each with its interface `if`.
ScenarioGraph ==
    (op.name = "block_end" /\ op.block.parent = "P"
        /\ op.block.body = <<Assign(<<"b">>, New("MOD"))>>) =>
        /\ DOMAIN instances[OpenRoot].children = {"a", "b"}
        /\ \A n \in {"a", "b"} :
              /\ InstanceRef(OpenModule, <<n>>) \in DOMAIN instances
              /\ instances[InstanceRef(OpenModule, <<n>>)].kind = "Module"
              /\ instances[InstanceRef(OpenModule, <<n>>)].type_ref
                     = ModuleRef(op.path, "MOD")
              /\ instances[InstanceRef(OpenModule, <<n>>)].children
                     = [k \in {"if"} |-> InstanceRef(OpenModule, <<n, "if">>)]
              /\ InstanceRef(OpenModule, <<n, "if">>) \in DOMAIN instances
              /\ instances[InstanceRef(OpenModule, <<n, "if">>)].kind = "Interface"

\* C15 as stated: after the evaluation of `module C from P`, C's root
\* instance has type_ref C, a child for every child name of P's root that
\* is a clone of P's child (same kind, attributes and descendants, keyed
\* under C's root), and the children C's body added; in the end-to-end
\* scenario M has `a` with `a.if` and its own `b`.
C15_ChildrenAreClones ==
    (Inheriting /\ op.name = "block_end") =>
        /\ OpenInstance.type_ref = OpenModule
        /\ DOMAIN OpenInstance.children = Inherited \cup DeclaredByBody
        /\ \A n \in Inherited :
              /\ OpenInstance.children[n] = InstanceRef(OpenModule, <<n>>)
              /\ IsClone(op.origin, op.origin[ParentRoot].children[n],
                         instances, OpenInstance.children[n])
        /\ ScenarioGraph

\* C15 amended: C's root instance is seeded with a clone of P's root and
\* C's body runs on top of it.  When the body begins, and after each of its
\* statements, the root has type_ref C and exactly the child names of P's
\* root and those the body added, each keyed under C's root; an inherited
\* child the body has not written to is a clone of P's child (same kind,
\* attributes and descendants); the scenario's graph is as stated.
C15_CloneThenBody ==
    Inheriting =>
        /\ OpenInstance.type_ref = OpenModule
        /\ DOMAIN OpenInstance.children = Inherited \cup DeclaredByBody
        /\ \A n \in Inherited :
              /\ OpenInstance.children[n] = InstanceRef(OpenModule, <<n>>)
              /\ n \notin WrittenByBody =>
                     IsClone(op.origin, op.origin[ParentRoot].children[n],
                             instances, OpenInstance.children[n])
        /\ ScenarioGraph

\* The scenario: M from P was evaluated with the body `b = new MOD`.
C15_Witness ==
    /\ op.name = "block_end"
    /\ op.block.parent = "P"
    /\ op.block.body = <<Assign(<<"b">>, New("MOD"))>>
    /\ op.errs = <<Ok>>
    /\ InstanceRef(OpenModule, <<"a", "if">>) \in DOMAIN instances
    /\ InstanceRef(OpenModule, <<"b", "if">>) \in DOMAIN instances

(***************************************************************************)
(* Duplicate declarations.                                                 *)
(***************************************************************************)
\* The file without the later declarations of a name already declared.
RECURSIVE WithoutDuplicates(_, _)
WithoutDuplicates(ast, i) ==
    IF i > Len(ast) THEN <<>>
    ELSE IF ast[i].tag = "Block" /\ i \notin Kept(ast)
    THEN WithoutDuplicates(ast, i + 1)
    ELSE <<ast[i]>> \o WithoutDuplicates(ast, i + 1)

BlocksOf(ast) == {i \in DOMAIN ast : ast[i].tag = "Block"}

TimesDeclared(ast, name) == Cardinality({i \in BlocksOf(ast) : ast[i].name = name})

NamesDeclared(ast) == {ast[i].name : i \in BlocksOf(ast)}

\* The diagnostics other than DuplicateDeclaration, in order.
NotDuplicate(d) == d.kind # "DuplicateDeclaration"

\* The kinds of the diagnostics, in order (their locations shift when a
\* statement is taken out of the file).
Kinds(diags) == [i \in DOMAIN diags |-> diags[i].kind]

\* evaluate_inner on ast as the only file.
Alone(path, ast) ==
    evaluate_inner([NewEvaluator EXCEPT !.files = (path :> ast)], disk, path, ast, <<>>)

\* C16: a file declaring a name k times gets exactly k-1
\* DuplicateDeclaration diagnostics for it; only the first declaration of
\* a name is collected, sorted and evaluated; and the other declarations
\* are evaluated as in the file without the duplicates: same instances,
\* same kinds of other diagnostics in the same order.
C16_DuplicatesDropped ==
    op.name # "new" =>
        /\ CountOf(diagnostics[op.path], "DuplicateDeclaration") =
               SumOver(NamesDeclared(files[op.path]),
                       [name \in NamesDeclared(files[op.path]) |->
                           TimesDeclared(files[op.path], name) - 1])
        /\ {declarations[k].location : k \in DOMAIN declarations} = Kept(files[op.path])
        /\ Len(declarations) = Cardinality(Kept(files[op.path]))
        /\ Range(SortedLocations) \subseteq Kept(files[op.path])
        /\ op.evaluated =
               [k \in 1..Len(op.evaluated) |-> files[op.path][SortedLocations[k]].name]
        /\ Len(op.evaluated) = Len(sorted) =>
               \E ev \in {Alone(op.path, WithoutDuplicates(files[op.path], 1))} :
                   /\ instances = ev.instances
                   /\ Kinds(SelectSeq(diagnostics[op.path], NotDuplicate))
                          = Kinds(ev.diagnostics[op.path])

\* A is declared twice, the second time inheriting from itself; the first
\* declaration and B, which inherits from it, were evaluated.
C16_Witness ==
    /\ op.name = "evaluate_block"
    /\ files[op.path] = << Block("Module", "A", None, <<Pass>>),
                           Block("Module", "A", "A", <<Pass>>),
                           Block("Module", "B", "A", <<Pass>>) >>
    /\ op.evaluated = <<"A", "B">>
    /\ CountOf(diagnostics[op.path], "DuplicateDeclaration") = 1
    /\ Len(diagnostics[op.path]) = 1
    /\ RootRef(ModuleRef(op.path, "B")) \in DOMAIN instances

(***************************************************************************)
(* The children map.                                                       *)
(***************************************************************************)
\* Every entry (name -> ref) of the children map of the instance keyed
\* key is key extended by name.
ChildrenKeyed(key, inst) ==
    \A name \in DOMAIN inst.children :
        /\ inst.children[name].module = key.module
        /\ inst.children[name].instance_path = Append(key.instance_path, name)

\* C17: in every state of the store, every children-map entry
\* (name -> ref) of the instance keyed K has ref.module = K.module and
\* ref.path = K.path ++ [name], the root instance checked out by
\* evaluate_block included: for children created by `new`, by signal and
\* pin statements, by a bare signal or pin in a connect statement, and by
\* cloning.
C17_ChildrenKeyedUnderParent ==
    /\ \A key \in DOMAIN instances : ChildrenKeyed(key, instances[key])
    /\ op.name \in {"block_begin", "evaluate_block_stmt"} =>
           ChildrenKeyed(OpenRoot, instance)

\* M from T holds children it inherited (x, y), one made by `new` with
\* cloned children two levels down (t.x.a), and a pin and a signal
\* declared by a connect statement; X holds children made by signal
\* statements.
C17_Witness ==
    /\ op.name = "block_end"
    /\ op.block.parent = "T"
    /\ {"x", "y", "t", "1", "s"} \subseteq DOMAIN instances[OpenRoot].children
    /\ DOMAIN instances[InstanceRef(OpenModule, <<"t", "x">>)].children = {"a", "b"}
    /\ InstanceRef(OpenModule, <<"t", "x", "a">>) \in DOMAIN instances
    /\ DOMAIN instances[RootRef(ModuleRef(op.path, "X"))].children = {"a", "b"}

(***************************************************************************)
(* A pass followed activation by activation.  evaluate resets the state    *)
(* and takes its snapshot of the files (set_source_begin,                  *)
(* remove_source_begin), then enters evaluate_inner for each file of the   *)
(* snapshot (evaluate_next).  An activation of evaluate_inner is a frame:  *)
(* its file, its import stack, its file scope, its declarations in sorted  *)
(* order and the index of the top-level statement it is at.  top_stmt is   *)
(* one iteration of phase 4 that starts no nested evaluation, import_call  *)
(* an import up to its call of evaluate_inner, inner_return phase 5 and    *)
(* the return, into evaluate or into the import that called.               *)
(*                                                                         *)
(*   a.ato (A3)                       a.ato (A4)                           *)
(*     from "a.ato" import T            from "b.ato" import X              *)
(*     module T: t = new T              from "b.ato" import K              *)
(*     module P from C: pass            module M: x = new X                *)
(*     module C from P: pass                                               *)
(***************************************************************************)
MaxFrames == 4

A3 == << Import(<<"a.ato">>, <<"T">>),
         Block("Module", "T", None, <<Assign(<<"t">>, New("T"))>>),
         Block("Module", "P", "C", <<Pass>>),
         Block("Module", "C", "P", <<Pass>>) >>

A4 == << Import(<<"b.ato">>, <<"X">>),
         Import(<<"b.ato">>, <<"K">>),
         Block("Module", "M", None, <<Assign(<<"x">>, New("X"))>>) >>

PassSources(path) == IF path = FileA THEN {A1, A3, A4} ELSE {B1, B2}

\* a.ato is on the disk, b.ato may be.
PassDisks ==
    {d \in UNION {[S -> {A1, A3, A4, B1, B2}] : S \in {{FileA}, {FileA, FileB}}} :
        \A f \in DOMAIN d : d[f] \in PassSources(f)}

InitPass ==
    /\ files = EmptyMap
    /\ instances = EmptyMap
    /\ diagnostics = EmptyMap
    /\ disk \in PassDisks
    /\ registered = {}
    /\ op = [name |-> "new"]
    /\ Idle

PassIdle == frames = <<>> /\ to_evaluate = <<>>

\* The innermost activation.
top == frames[Len(frames)]

\* evaluate_inner up to phase 3: the diagnostics of the file are cleared,
\* the declarations collected, sorted and registered in a new file scope.
inner_frame(ev, path, ast, import_stack, id) ==
    Bind(collect_block_declarations(ast),
         LAMBDA collected :
             Bind(sort_blocks(collected.declarations),
                  LAMBDA order :
                      [ev |-> inner_reports(ev, path, collected, order),
                       frame |->
                           [path |-> path, ast |-> ast, import_stack |-> import_stack,
                            symbols |-> preregister(EmptyMap, path,
                                                    collected.declarations, 1),
                            decls |-> collected.declarations, order |-> order.sorted,
                            next |-> 1, id |-> id, import |-> <<>>]]))

\* What the statement the frame is at decides: phase 4 skips a block, an
\* import returns or asks for the nested evaluation (load), every other
\* statement is evaluated by evaluate_top_stmt.
stmt_outcome(ev, fs, frame) ==
    CASE frame.ast[frame.next].tag = "Block" ->
            ImportOutcome(FALSE, TopResult(Ok, ev, frame.symbols), None, <<>>)
      [] frame.ast[frame.next].tag \in {"Import", "DepImport"} ->
            Bind(resolve_import_path(fs, frame.path, frame.ast[frame.next].from_path),
                 LAMBDA path :
                     import_outcome(ev, fs, frame.import_stack, frame.symbols,
                                    import_symbols_of(frame.ast[frame.next]), path))
      [] OTHER ->
            ImportOutcome(FALSE,
                evaluate_top_stmt(ev, fs, frame.path, frame.import_stack, frame.symbols,
                                  frame.ast[frame.next]),
                None, <<>>)

\* The diagnostics the step appended for the file path.
Appended(before, after, path) == DropFirst(after[path], Len(before[path]))

\* The log with the diagnostics added to what activation id reported.
Logged(entries, id, added) == [entries EXCEPT ![id].reported = @ \o added]

\* set_source, then evaluate up to its loop.
set_source_begin(path, source) ==
    /\ PassIdle
    /\ files' = Insert(files, path, source)
    /\ instances' = EmptyMap
    /\ diagnostics' = EmptyMap
    /\ to_evaluate' \in Perms(DOMAIN files \cup {path})
    /\ log' = <<>>
    /\ registered' = registered \cup {path}
    /\ op' = [name |-> "set_source", path |-> path]
    /\ UNCHANGED <<disk, last_diagnostics, published, instance, file_scope, declarations, sorted, frames>>

\* remove_source, then evaluate up to its loop.
remove_source_begin(path) ==
    /\ PassIdle
    /\ files' = Remove(files, path)
    /\ instances' = EmptyMap
    /\ diagnostics' = EmptyMap
    /\ to_evaluate' \in Perms(DOMAIN files \ {path})
    /\ log' = <<>>
    /\ registered' = registered \ {path}
    /\ op' = [name |-> "remove_source", path |-> path]
    /\ UNCHANGED <<disk, last_diagnostics, published, instance, file_scope, declarations, sorted, frames>>

\* One iteration of the loop of evaluate, up to phase 4 of evaluate_inner.
evaluate_next ==
    /\ frames = <<>>
    /\ to_evaluate # <<>>
    /\ \E f \in {inner_frame(Evaluator, Head(to_evaluate), files[Head(to_evaluate)],
                              <<>>, Len(log) + 1)} :
           /\ frames' = <<f.frame>>
           /\ diagnostics' = f.ev.diagnostics
           /\ log' = Append(log, [path |-> f.frame.path,
                                  reported |-> f.ev.diagnostics[f.frame.path]])
    /\ to_evaluate' = Tail(to_evaluate)
    /\ op' = [name |-> "evaluate_inner", path |-> Head(to_evaluate)]
    /\ UNCHANGED <<files, instances, disk, last_diagnostics, published, registered, instance, file_scope,
                   declarations, sorted>>

\* One iteration of phase 4 that returns without a nested evaluation.
top_stmt ==
    /\ frames # <<>>
    /\ top.next <= Len(top.ast)
    /\ \E o \in {stmt_outcome(Evaluator, disk, top)} :
           /\ ~o.load
           /\ \E ev \in {IF o.result.err # Ok
                          THEN report(o.result.ev, o.result.err.kind, top.path,
                                      o.result.err.detail)
                          ELSE o.result.ev} :
                  /\ instances' = ev.instances
                  /\ diagnostics' = ev.diagnostics
                  /\ files' = ev.files
                  /\ log' = Logged(log, top.id,
                                   Appended(diagnostics, ev.diagnostics, top.path))
           /\ frames' = [frames EXCEPT ![Len(frames)].symbols = o.result.symbols,
                                       ![Len(frames)].next = @ + 1]
    /\ op' = [name |-> "evaluate_top_stmt", path |-> top.path]
    /\ UNCHANGED <<disk, last_diagnostics, published, registered, instance, file_scope, declarations, sorted,
                   to_evaluate>>

\* An import up to its call of evaluate_inner, and the callee up to phase 4.
import_call ==
    /\ frames # <<>>
    /\ top.next <= Len(top.ast)
    /\ Len(frames) < MaxFrames
    /\ \E o \in {stmt_outcome(Evaluator, disk, top)} :
           /\ o.load
           /\ \E f \in {inner_frame(o.result.ev, o.path, o.ast,
                                     Append(top.import_stack, o.path), Len(log) + 1)} :
                  /\ frames' =
                         Append([frames EXCEPT ![Len(frames)].import =
                                    <<[path |-> o.path, symbols |-> o.result.symbols]>>],
                                f.frame)
                  /\ instances' = f.ev.instances
                  /\ diagnostics' = f.ev.diagnostics
                  /\ files' = f.ev.files
                  /\ log' = Append(log, [path |-> o.path,
                                         reported |-> f.ev.diagnostics[o.path]])
           /\ op' = [name |-> "evaluate_import", path |-> top.path, imported |-> o.path]
    /\ UNCHANGED <<disk, last_diagnostics, published, registered, instance, file_scope, declarations, sorted,
                   to_evaluate>>

\* Phase 5 of the innermost activation and its return: to evaluate, or to
\* the import that called, which binds the symbols and reports the missing.
inner_return ==
    /\ frames # <<>>
    /\ top.next > Len(top.ast)
    /\ \E ev \in {blocks_in_order(Evaluator, top.symbols, top.path, top.decls,
                                   top.order, 1)} :
       \E own \in {Logged(log, top.id, Appended(diagnostics, ev.diagnostics, top.path))} :
           IF Len(frames) = 1
           THEN /\ frames' = <<>>
                /\ instances' = ev.instances
                /\ diagnostics' = ev.diagnostics
                /\ log' = own
           ELSE \E caller \in {frames[Len(frames) - 1]} :
                \E r \in {import_finish(ev, caller.path, caller.import[1].symbols,
                                        import_symbols_of(caller.ast[caller.next]),
                                        caller.import[1].path)} :
                    /\ frames' =
                           Append(SubSeq(frames, 1, Len(frames) - 2),
                                  [caller EXCEPT !.symbols = r.symbols,
                                                 !.next = @ + 1,
                                                 !.import = <<>>])
                    /\ instances' = r.ev.instances
                    /\ diagnostics' = r.ev.diagnostics
                    /\ log' = Logged(own, caller.id,
                                     Appended(ev.diagnostics, r.ev.diagnostics,
                                              caller.path))
    /\ op' = [name |-> "evaluate_inner_return", path |-> top.path]
    /\ UNCHANGED <<files, disk, last_diagnostics, published, registered, instance, file_scope, declarations, sorted,
                   to_evaluate>>

\* The steps of the pass itself: once called, evaluate runs on.
PassStep == evaluate_next \/ top_stmt \/ import_call \/ inner_return

NextPass ==
    \/ \E path \in Paths : \E source \in PassSources(path) : set_source_begin(path, source)
    \/ \E path \in Paths : remove_source_begin(path)
    \/ evaluate_next
    \/ top_stmt
    \/ import_call
    \/ inner_return

SpecPass == InitPass /\ [][NextPass]_vars /\ WF_vars(PassStep)

(***************************************************************************)
(* The activations of a pass.                                              *)
(***************************************************************************)
\* The activations of the pass that evaluated the file path.
EvaluationsOf(path) == {k \in DOMAIN log : log[k].path = path}

\* C12: every evaluation of a file first removes the diagnostics stored
\* for it, so at the end of a pass the diagnostics stored for a file are
\* exactly those one evaluation of that file reported, none of another
\* evaluation of it left or added.
C12_DiagnosticsOfOneEvaluation ==
    PassIdle =>
        \A path \in DOMAIN diagnostics :
            EvaluationsOf(path) # {} =>
                \E k \in EvaluationsOf(path) : diagnostics[path] = log[k].reported

\* The import stack of every activation holds the files of the
\* activations that called it, each once.
StackBounded ==
    \A i \in DOMAIN frames :
        /\ Len(frames[i].import_stack) = i - 1
        /\ Cardinality(Range(frames[i].import_stack)) = i - 1
        /\ frames[i].import_stack \in Seq(DOMAIN files)

\* C13: a pass terminates for every set of files, whatever the import
\* graph (import cycles and a file importing itself included) and the
\* inheritance graph (inheritance cycles and a block instantiating its own
\* type included): the nesting of evaluate_inner is bounded by the number
\* of files, and every pass that began comes to its end.
C13_PassTerminates ==
    /\ []StackBounded
    /\ (~PassIdle) ~> PassIdle

\* A pass over a file that imports itself, holds an inheritance cycle and
\* a block instantiating its own type has ended, each reported.
C13_Witness ==
    /\ PassIdle
    /\ FileA \in DOMAIN files
    /\ files[FileA] = A3
    /\ FileA \in DOMAIN diagnostics
    /\ Len(log) >= 2
    /\ \E i \in DOMAIN diagnostics[FileA] : diagnostics[FileA][i].kind = "ImportCycle"
    /\ \E i \in DOMAIN diagnostics[FileA] :
           diagnostics[FileA][i].kind = "CyclicInheritance"
    /\ \E i \in DOMAIN diagnostics[FileA] : diagnostics[FileA][i].kind = "Internal"

\* C14: within one pass evaluate_inner runs at most once for a file,
\* however the file is reached: as a file of the snapshot or through any
\* number of import statements.
C14_EvaluatedOnce ==
    \A i, j \in DOMAIN log : log[i].path = log[j].path => i = j

(***************************************************************************)
(* EvaluatorState::resolve_reference_designators.  The project of the      *)
(* model is                                                                *)
(*                                                                         *)
(*   /p/s/r.ato      component R: pin 1                                    *)
(*                   module M: r = new R; q = new R                        *)
(*   /p/ato.yaml, /p/s/ato.yaml              either, both or none          *)
(*   /p/build/default.net or /p/s/build/default.net, or none               *)
(*                                                                         *)
(* A netlist is the sequence of its (comp ...) forms, each with the text   *)
(* of its (ref "...") and of its sheetpath (names "..."), the empty text   *)
(* when the form has no sheetpath: what COMP_RE captures.  A text is the   *)
(* sequence of its parts: the components of a path, ":", "::", ".".        *)
(***************************************************************************)
MaxComps == 2

FileR == <<"/", "p", "s", "r.ato">>

RefdesSource ==
    << Block("Component", "R", None, <<Pin("1")>>),
       Block("Module", "M", None,
             << Assign(<<"r">>, New("R")), Assign(<<"q">>, New("R")) >>) >>

\* instance_path.iter().map(|s| s.to_string()).collect().join(".")
RECURSIVE join_dots(_)
join_dots(path) ==
    IF Len(path) <= 1 THEN path
    ELSE <<path[1], ".">> \o join_dots(Tail(path))

\* format!("{}:{}::{}", source_path.display(), module_name, dotted path)
sheet_path(instance_ref) ==
    instance_ref.module.source_path
        \o <<":", instance_ref.module.module_name, "::">>
        \o join_dots(instance_ref.instance_path)

Comp(ref_des, names) == [ref |-> ref_des, names |-> names]

\* COMP_RE.captures_iter: a form without sheetpath does not match; a later
\* form of the same sheet path replaces the earlier one in the map.
RECURSIVE ref_map_of(_, _, _)
ref_map_of(contents, i, map) ==
    IF i > Len(contents) THEN map
    ELSE IF contents[i].names = <<>> THEN ref_map_of(contents, i + 1, map)
    ELSE ref_map_of(contents, i + 1, Insert(map, contents[i].names, contents[i].ref))

\* The instances the pass visits, taken without regard to their kind.
all_instances(store) == DOMAIN store

component_instances(store) == {ref \in DOMAIN store : store[ref].kind = "Component"}

\* One iteration of the loop over the component instances.  The map of a
\* netlist is the same whether read or taken from processed_netlists.
resolve_designator(store, fs, instance_ref) ==
    LET source_dir == path_parent(instance_ref.module.source_path)
    IN  IF source_dir = None THEN store
        ELSE Bind(find_project_root(fs, source_dir), LAMBDA current_dir :
             IF current_dir = None THEN store
             ELSE Bind(path_join(current_dir, <<"build", "default.net">>),
                       LAMBDA netlist_path :
                  IF ~path_exists(fs, netlist_path) THEN store
                  ELSE IF netlist_path \notin DOMAIN fs THEN store
                  ELSE Bind(ref_map_of(fs[netlist_path], 1, EmptyMap), LAMBDA ref_map :
                       IF sheet_path(instance_ref) \in DOMAIN ref_map
                          /\ instance_ref \in DOMAIN store
                       THEN [store EXCEPT ![instance_ref].reference_designator =
                                              ref_map[sheet_path(instance_ref)]]
                       ELSE store)))

RECURSIVE resolve_designators(_, _, _)
resolve_designators(store, fs, refs) ==
    IF refs = {} THEN store
    ELSE LET instance_ref == CHOOSE r \in refs : TRUE
         IN  resolve_designators(resolve_designator(store, fs, instance_ref), fs,
                                 refs \ {instance_ref})

state_resolve_reference_designators(store, fs) ==
    resolve_designators(store, fs, component_instances(store))

RefdesRoots == {<<"/", "p">>, <<"/", "p", "s">>}

MRef(path) == InstanceRef(ModuleRef(FileR, "M"), path)

RefdesComps ==
    { Comp("R1", sheet_path(MRef(<<"r">>))),
      Comp("R9", sheet_path(MRef(<<"r">>))),
      Comp("R2", sheet_path(MRef(<<"q">>))),
      Comp("R3", sheet_path(RootRef(ModuleRef(FileR, "R")))),
      Comp("U1", sheet_path(MRef(<<>>))),
      Comp("J1", sheet_path(MRef(<<"r", "1">>))),
      Comp("R5", sheet_path(MRef(<<"z">>))),
      Comp("R4", <<>>) }

Netlists == UNION {[1..n -> RefdesComps] : n \in 0..MaxComps}

NetlistFiles ==
    {EmptyMap, (<<"/", "p", "build", "default.net", "x">> :> <<>>)}
    \cup {(path_join(root, <<"build", "default.net">>) :> netlist) :
             root \in RefdesRoots, netlist \in Netlists}

RefdesDisks ==
    {[marker \in {path_join(root, <<"ato.yaml">>) : root \in roots} |-> <<>>] @@ netlist :
        roots \in SUBSET RefdesRoots, netlist \in NetlistFiles}

InitRefdes ==
    /\ files = EmptyMap
    /\ instances = EmptyMap
    /\ diagnostics = EmptyMap
    /\ disk \in RefdesDisks
    /\ registered = {}
    /\ op = [name |-> "new"]
    /\ Idle

\* Evaluator::resolve_reference_designators.
resolve_reference_designators ==
    /\ instances' = state_resolve_reference_designators(instances, disk)
    /\ op' = [name |-> "resolve_reference_designators", before |-> instances,
              reported |-> diagnostics]
    /\ UNCHANGED <<files, diagnostics, disk, last_diagnostics, published, registered, instance, file_scope,
                   declarations, sorted>>
    /\ Atomic

NextRefdes ==
    \/ set_source(FileR, RefdesSource)
    \/ remove_source(FileR)
    \/ resolve_reference_designators

SpecRefdes == InitRefdes /\ [][NextRefdes]_vars

(***************************************************************************)
(* What resolve_reference_designators may change.                          *)
(***************************************************************************)
\* The directories above a file, the nearest last.
Ancestors(path) == {SubSeq(path, 1, k) : k \in 1..(Len(path) - 1)}

\* The nearest directory above the file of ref that holds ato.yaml.
ProjectRoots(ref) ==
    {d \in Ancestors(ref.module.source_path) : (d \o <<"ato.yaml">>) \in DOMAIN disk}

NearestRoot(ref) ==
    CHOOSE d \in ProjectRoots(ref) : \A e \in ProjectRoots(ref) : Len(e) <= Len(d)

NetlistOf(ref) == NearestRoot(ref) \o <<"build", "default.net">>

\* The forms of the netlist of ref's project that name ref's sheet path.
Matches(ref) ==
    IF ProjectRoots(ref) = {} THEN {}
    ELSE IF NetlistOf(ref) \notin DOMAIN disk THEN {}
    ELSE {i \in DOMAIN disk[NetlistOf(ref)] :
             disk[NetlistOf(ref)][i].names = sheet_path(ref)}

LastMatch(ref) == CHOOSE i \in Matches(ref) : \A j \in Matches(ref) : j <= i

\* C18: resolve_reference_designators adds and removes no instance,
\* reports no diagnostic, changes nothing of an instance but the
\* reference_designator of a Component, sets it to the designator the
\* netlist gives for the instance's sheet path, and leaves the instance as
\* it was when there is no project root, no netlist or no matching sheet
\* path; in every state only Component instances have a
\* reference_designator.
C18_OnlyDesignators ==
    /\ \A ref \in DOMAIN instances :
           instances[ref].reference_designator # None =>
               instances[ref].kind = "Component"
    /\ op.name = "resolve_reference_designators" =>
           /\ DOMAIN instances = DOMAIN op.before
           /\ diagnostics = op.reported
           /\ \A ref \in DOMAIN instances :
                  /\ [instances[ref] EXCEPT !.reference_designator =
                                                op.before[ref].reference_designator]
                         = op.before[ref]
                  /\ instances[ref].kind # "Component" => instances[ref] = op.before[ref]
                  /\ Matches(ref) = {} => instances[ref] = op.before[ref]
                  /\ (Matches(ref) # {} /\ instances[ref].kind = "Component") =>
                         instances[ref].reference_designator
                             = disk[NetlistOf(ref)][LastMatch(ref)].ref

\* The netlist names M.r and the module M itself: r has its designator,
\* q and M have none, and nothing was reported.
C18_Witness ==
    /\ op.name = "resolve_reference_designators"
    /\ MRef(<<"r">>) \in DOMAIN instances
    /\ instances[MRef(<<"r">>)].reference_designator = "R1"
    /\ instances[MRef(<<"q">>)].reference_designator = None
    /\ instances[MRef(<<>>)].reference_designator = None
    /\ Matches(MRef(<<>>)) # {}
    /\ diagnostics[FileR] = <<>>

(***************************************************************************)
(* resolve_import_path applied to a project on disk.  The files that may   *)
(* exist are the candidates of the three tiers for an importing file       *)
(* outside and inside a `.ato` directory:                                  *)
(*                                                                         *)
(*   /p/s/x.ato                      ctx_path outside `.ato`               *)
(*   /p/.ato/modules/m/s/x.ato       ctx_path inside `.ato`                *)
(*   lib.ato, ato.yaml               in /p, /p/s, /p/.ato/modules/m        *)
(*   lib.ato                         in .ato/modules of /p and /p/s,       *)
(*                                   in /p/.ato/modules/m/s                *)
(***************************************************************************)
CtxOutside == <<"/", "p", "s", "x.ato">>

CtxInside == <<"/", "p", ".ato", "modules", "m", "s", "x.ato">>

CtxPaths == {CtxOutside, CtxInside}

ImportPathsAsked == {<<"lib.ato">>, <<"/", "q", "lib.ato">>}

ProjectFiles ==
    { <<"/", "p", "lib.ato">>,
      <<"/", "p", "ato.yaml">>,
      <<"/", "p", ".ato", "modules", "lib.ato">>,
      <<"/", "p", "s", "lib.ato">>,
      <<"/", "p", "s", "ato.yaml">>,
      <<"/", "p", "s", ".ato", "modules", "lib.ato">>,
      <<"/", "p", ".ato", "modules", "m", "lib.ato">>,
      <<"/", "p", ".ato", "modules", "m", "ato.yaml">>,
      <<"/", "p", ".ato", "modules", "m", "s", "lib.ato">> }

InitResolve ==
    /\ files = EmptyMap
    /\ instances = EmptyMap
    /\ diagnostics = EmptyMap
    /\ disk \in {[f \in present \cup CtxPaths |-> <<>>] : present \in SUBSET ProjectFiles}
    /\ registered = {}
    /\ op = [name |-> "new"]
    /\ Idle

\* Option<PathBuf>: None is the empty sequence, Some(path) the sequence of
\* that path.
Option(path) == IF path = None THEN <<>> ELSE <<path>>

\* One call of resolve_import_path.
resolve_call(ctx_path, import_path) ==
    /\ op' = [name |-> "resolve_import_path", ctx_path |-> ctx_path,
              import_path |-> import_path,
              result |-> Option(resolve_import_path(disk, ctx_path, import_path))]
    /\ UNCHANGED <<files, instances, diagnostics, disk, last_diagnostics, published, registered, instance,
                   file_scope, declarations, sorted>>
    /\ Atomic

NextResolve ==
    \E ctx_path \in CtxPaths : \E import_path \in ImportPathsAsked :
        resolve_call(ctx_path, import_path)

SpecResolve == InitResolve /\ [][NextResolve]_vars

(***************************************************************************)
(* The candidates of an import, in the order of precedence.                *)
(***************************************************************************)
OnDisk(path) == \E f \in DOMAIN disk : starts_with(f, path)

DirOf(path) == SubSeq(path, 1, Len(path) - 1)

\* The ancestor directories of ctx_path named `.ato`.
DotAtoAbove(ctx_path) == {d \in Ancestors(ctx_path) : d[Len(d)] = ".ato"}

\* The ancestor directories of ctx_path that contain ato.yaml.
RootsAbove(ctx_path) == {d \in Ancestors(ctx_path) : OnDisk(d \o <<"ato.yaml">>)}

Nearest(dirs) == CHOOSE d \in dirs : \A e \in dirs : Len(e) <= Len(d)

\* The candidates beneath a project root: the root, then its .ato/modules.
UnderRoot(root, import_path) ==
    << root \o import_path, root \o <<".ato", "modules">> \o import_path >>

\* The candidates as the claim orders them: tier 3 only when no ancestor
\* is named `.ato`.
Candidates(ctx_path, import_path) ==
    << DirOf(ctx_path) \o import_path >>
    \o (IF DotAtoAbove(ctx_path) # {}
        THEN UnderRoot(DirOf(Nearest(DotAtoAbove(ctx_path))), import_path)
        ELSE IF RootsAbove(ctx_path) # {}
        THEN UnderRoot(Nearest(RootsAbove(ctx_path)), import_path)
        ELSE <<>>)

\* The candidates with tier 3 following tier 2 in every case.
CandidatesInTurn(ctx_path, import_path) ==
    << DirOf(ctx_path) \o import_path >>
    \o (IF DotAtoAbove(ctx_path) # {}
        THEN UnderRoot(DirOf(Nearest(DotAtoAbove(ctx_path))), import_path)
        ELSE <<>>)
    \o (IF RootsAbove(ctx_path) # {}
        THEN UnderRoot(Nearest(RootsAbove(ctx_path)), import_path)
        ELSE <<>>)

\* The first candidate that exists, None when there is none.
FirstExisting(candidates) ==
    IF \E i \in DOMAIN candidates : OnDisk(candidates[i])
    THEN <<candidates[CHOOSE i \in DOMAIN candidates :
                         /\ OnDisk(candidates[i])
                         /\ \A j \in 1..(i - 1) : ~OnDisk(candidates[j])]>>
    ELSE <<>>

\* C19: an absolute import_path is returned unchanged; for a relative one
\* resolve_import_path returns the first existing candidate among
\* (1) ctx_path's directory, (2) when an ancestor of ctx_path is named
\* `.ato`, its parent and then that parent's .ato/modules, (3) otherwise
\* the nearest ancestor containing ato.yaml and then its .ato/modules,
\* and None exactly when none of these exists.
C19_FirstCandidate ==
    op.name = "resolve_import_path" =>
        op.result =
            IF is_absolute(op.import_path) THEN <<op.import_path>>
            ELSE FirstExisting(Candidates(op.ctx_path, op.import_path))

\* What the code does: tier 3 is tried whenever tiers 1 and 2 found nothing.
ResolvesInTurn ==
    op.name = "resolve_import_path" =>
        op.result =
            IF is_absolute(op.import_path) THEN <<op.import_path>>
            ELSE FirstExisting(CandidatesInTurn(op.ctx_path, op.import_path))

(***************************************************************************)
(* AtopileAnalyzer (lib.rs): the analysis of unused interfaces.  In this   *)
(* specification `files` is AtopileAnalyzer.files, the cache of analysed   *)
(* sources (path -> AnalyzerSource: the statement tree and its modules),   *)
(* and `disk` maps a path to the statement tree of the text saved there.   *)
(* The files hold no import statement and no block inside a block, so a    *)
(* name is defined in the file or nowhere, and the blocks traversed are    *)
(* the top-level ones.                                                     *)
(***************************************************************************)
MaxBody == 2

FileU == <<"/", "p", "u.ato">>

\* anyhow::Result: Err(..), a panic (unreachable!()) and Ok(value).
AnyErr == [ok |-> FALSE, panic |-> FALSE, value |-> <<>>]

AnyPanic == [ok |-> FALSE, panic |-> TRUE, value |-> <<>>]

AnyOk(value) == [ok |-> TRUE, panic |-> FALSE, value |-> value]

\* impl Display for PortRef: the parts joined by ".".
port_to_string(parts) == join_dots(parts)

\* HashMap::extend: the entries of `other` replace those of the same key.
extend(map, other) ==
    [k \in DOMAIN map \cup DOMAIN other |->
        IF k \in DOMAIN other THEN other[k] ELSE map[k]]

\* The first top-level block of that name, as Option.
find_definition_in_source(ast, name) ==
    Bind({i \in DOMAIN ast : ast[i].tag = "Block" /\ ast[i].name = name},
         LAMBDA found :
            IF found = {} THEN <<>>
            ELSE <<ast[CHOOSE i \in found : \A j \in found : i <= j]>>)

\* Located<BlockStmt> of the definition, as Option; no import names the
\* symbol, so a name the file does not define is Ok(None).
find_definition(path, ast, name) ==
    Bind(find_definition_in_source(ast, name), LAMBDA block :
        IF block = <<>> THEN <<>>
        ELSE <<[block |-> block[1], file |-> path]>>)

\* std::fs::read_to_string and the parse of the text.
load_raw_source(fs, path) ==
    IF path \in DOMAIN fs THEN AnyOk(fs[path]) ELSE AnyErr

RECURSIVE analyze_module(_, _, _, _)

\* The parent of a block, analysed in the saved text of its file:
\* Ok(None) without a parent, Err when the parent has no definition.
parent_block(fs, path, ast, block) ==
    IF block.parent = None THEN AnyOk(<<>>)
    ELSE Bind(find_definition(path, ast, block.parent), LAMBDA def :
        IF def = <<>> THEN AnyErr
        ELSE Bind(load_raw_source(fs, def[1].file), LAMBDA source :
            IF ~source.ok THEN source
            ELSE Bind(analyze_module(fs, def[1].file, source.value, def[1].block),
                      LAMBDA parent :
                        IF ~parent.ok THEN parent ELSE AnyOk(<<parent.value>>))))

\* The `x = new T` assignments of a body from statement i on: T without a
\* definition is dropped, an interface goes to `interfaces`, a module or
\* component is analysed in the saved text of its file and goes to
\* `instantiations`.
RECURSIVE new_assignments(_, _, _, _, _, _)
new_assignments(fs, path, ast, block, i, own) ==
    IF i > Len(block.body) THEN AnyOk(own)
    ELSE IF ~(block.body[i].tag = "Assign" /\ block.body[i].value.tag = "New")
    THEN new_assignments(fs, path, ast, block, i + 1, own)
    ELSE Bind(find_definition(path, ast, block.body[i].value.text), LAMBDA def :
        IF def = <<>> THEN new_assignments(fs, path, ast, block, i + 1, own)
        ELSE Bind([ident |-> port_to_string(block.body[i].target),
                   location |-> [file |-> path, block |-> block.name, stmt |-> i]],
                  LAMBDA at :
            IF def[1].block.kind = "Interface"
            THEN new_assignments(fs, path, ast, block, i + 1,
                    [own EXCEPT !.interfaces =
                        Insert(@, at.ident,
                               [ident |-> at.ident,
                                interface |-> def[1].block.name,
                                location |-> at.location])])
            ELSE Bind(load_raw_source(fs, def[1].file), LAMBDA source :
                IF ~source.ok THEN source
                ELSE Bind(analyze_module(fs, def[1].file, source.value, def[1].block),
                          LAMBDA module :
                    IF ~module.ok THEN module
                    ELSE new_assignments(fs, path, ast, block, i + 1,
                            [own EXCEPT !.instantiations =
                                Insert(@, at.ident,
                                       [ident |-> at.ident,
                                        module |-> module.value,
                                        location |-> at.location])])))))

\* The Connect statements of a body, in order.
connections_of(body) ==
    [i \in 1..Len(SelectSeq(body, LAMBDA stmt : stmt.tag = "Connect")) |->
        [left |-> SelectSeq(body, LAMBDA stmt : stmt.tag = "Connect")[i].left,
         right |-> SelectSeq(body, LAMBDA stmt : stmt.tag = "Connect")[i].right]]

\* Module of a block: its own instantiations, interfaces and connections,
\* then those of its parent merged in.
analyze_module(fs, path, ast, block) ==
    Bind(parent_block(fs, path, ast, block), LAMBDA parent :
        IF ~parent.ok THEN parent
        ELSE Bind(new_assignments(fs, path, ast, block, 1,
                      [instantiations |-> EmptyMap, interfaces |-> EmptyMap]),
                  LAMBDA own :
            IF ~own.ok THEN own
            ELSE IF block.kind \notin {"Component", "Module"} THEN AnyPanic
            ELSE IF parent.value = <<>>
            THEN AnyOk([name |-> block.name, kind |-> block.kind,
                        instantiations |-> own.value.instantiations,
                        interfaces |-> own.value.interfaces,
                        connections |-> connections_of(block.body)])
            ELSE AnyOk([name |-> block.name, kind |-> block.kind,
                        instantiations |-> extend(own.value.instantiations,
                                                  parent.value[1].instantiations),
                        interfaces |-> extend(own.value.interfaces,
                                              parent.value[1].interfaces),
                        connections |-> connections_of(block.body)
                                            \o parent.value[1].connections])))

\* AnalyzerSource of a statement tree: the Module of every module and
\* component block under its name, or the first error.
RECURSIVE analyze_blocks(_, _, _, _, _)
analyze_blocks(fs, path, ast, i, modules) ==
    IF i > Len(ast) THEN AnyOk([file |-> ast, modules |-> modules])
    ELSE IF ~(ast[i].tag = "Block" /\ ast[i].kind \in {"Module", "Component"})
    THEN analyze_blocks(fs, path, ast, i + 1, modules)
    ELSE Bind(analyze_module(fs, path, ast, ast[i]), LAMBDA module :
        IF ~module.ok THEN module
        ELSE analyze_blocks(fs, path, ast, i + 1,
                            Insert(modules, ast[i].name, module.value)))

analyze_source(fs, path, ast) == analyze_blocks(fs, path, ast, 1, EmptyMap)

\* The cached source of a path or, without one, the analysis of the saved
\* text, which is then cached.
load_source(cache, fs, path) ==
    IF canonicalize(fs, path) = None THEN [result |-> AnyErr, files |-> cache]
    ELSE IF path \in DOMAIN cache
    THEN [result |-> AnyOk(cache[path]), files |-> cache]
    ELSE Bind(load_raw_source(fs, path), LAMBDA source :
        IF ~source.ok THEN [result |-> source, files |-> cache]
        ELSE Bind(analyze_source(fs, path, source.value), LAMBDA analyzed :
            IF ~analyzed.ok THEN [result |-> analyzed, files |-> cache]
            ELSE [result |-> analyzed,
                  files |-> Insert(cache, path, analyzed.value)]))

\* The (p1, p2) of every endpoint that is a port of two parts or more.
port_pair(module) ==
    {<<port_to_string(<<port.parts[1]>>), port_to_string(<<port.parts[2]>>)>> :
        port \in {c \in UNION {{module.connections[k].left,
                               module.connections[k].right} :
                                  k \in DOMAIN module.connections} :
                     c.tag = "Port" /\ Len(c.parts) >= 2}}

\* The diagnostics of one module: one for every interface of the type of
\* an instantiation without a connection to (instantiation, interface).
unconnected_interfaces(module) ==
    { [file |-> module.instantiations[m].location.file,
       severity |-> "Warning",
       kind |-> "UnconnectedInterface",
       instance_name |-> module.instantiations[m].ident,
       interface_name |-> module.instantiations[m].module.interfaces[i].ident,
       instantiation_location |-> module.instantiations[m].location,
       interface_location |->
           module.instantiations[m].module.interfaces[i].location] :
        <<m, i>> \in {<<m, i>> \in UNION {{m} \X DOMAIN module.instantiations[m]
                                                      .module.interfaces :
                                             m \in DOMAIN module.instantiations} :
                         <<module.instantiations[m].ident,
                           module.instantiations[m].module.interfaces[i].ident>>
                             \notin port_pair(module)} }

\* Vec<AnalyzerDiagnostic> of a path.  The Vec follows the iteration order
\* of three hash maps; it is taken as the bag of its elements, diagnostic
\* -> number of occurrences.
analyze_unused_interfaces(cache, fs, path) ==
    Bind(load_source(cache, fs, path), LAMBDA source :
        IF ~source.result.ok THEN source
        ELSE [result |->
                AnyOk([d \in UNION {unconnected_interfaces(
                                        source.result.value.modules[n]) :
                                      n \in DOMAIN source.result.value.modules} |->
                        Cardinality({n \in DOMAIN source.result.value.modules :
                            d \in unconnected_interfaces(
                                      source.result.value.modules[n])})]),
              files |-> source.files])

(***************************************************************************)
(* The files analysed: the file of test_analyze_unused_interfaces with a   *)
(* third type K that inherits from MOD,                                    *)
(*                                                                         *)
(*   interface IF: pass                                                    *)
(*   module MOD:        if1 = new IF; if2 = new IF                         *)
(*   module K from MOD: if3 = new IF                                       *)
(*   module P:          a = new MOD  [; a.if1 ~ a.if2]                     *)
(*   module M [from P | from Z | from IF]:  up to MaxBody statements       *)
(*                                                                         *)
(* The saved text is the file of the test, that file before                *)
(* `interface IF` was typed, that file with `M from Z`, or missing.        *)
(***************************************************************************)
UStmts ==
    { Assign(<<"b">>, New("K")),
      Connect(ConnPort(<<"b", "if1">>), ConnPort(<<"a", "if1">>)),
      Connect(ConnPort(<<"a", "if2", "z">>), ConnPort(<<"b", "if3">>)),
      Connect(ConnPort(<<"b">>), ConnSignal("s")) }

UBodies == UNION {[1..n -> UStmts] : n \in 0..MaxBody}

UTypes(connected) ==
    << Block("Interface", "IF", None, <<Pass>>),
       Block("Module", "MOD", None,
             <<Assign(<<"if1">>, New("IF")), Assign(<<"if2">>, New("IF"))>>),
       Block("Module", "K", "MOD", <<Assign(<<"if3">>, New("IF"))>>),
       Block("Module", "P", None,
             IF connected
             THEN << Assign(<<"a">>, New("MOD")),
                     Connect(ConnPort(<<"a", "if1">>), ConnPort(<<"a", "if2">>)) >>
             ELSE << Assign(<<"a">>, New("MOD")) >>) >>

UFiles ==
    {UTypes(connected) \o <<Block("Module", "M", parent, body)>> :
        connected \in BOOLEAN, parent \in {None, "P", "Z", "IF"}, body \in UBodies}

USaved ==
    UTypes(FALSE)
        \o << Block("Module", "M", "P",
                    << Assign(<<"b">>, New("K")),
                       Connect(ConnPort(<<"b", "if1">>), ConnPort(<<"a", "if1">>)) >>) >>

UDisks ==
    { EmptyMap,
      (FileU :> USaved),
      (FileU :> Tail(USaved)),
      (FileU :> [USaved EXCEPT ![5].parent = "Z"]) }

InitUnused ==
    /\ files = EmptyMap
    /\ instances = EmptyMap
    /\ diagnostics = EmptyMap
    /\ disk \in UDisks
    /\ registered = {}
    /\ op = [name |-> "new"]
    /\ Idle

\* AtopileAnalyzer::set_source: the analysis of the buffer replaces the
\* cached source of the path; an error leaves the cache as it was.
analyzer_set_source(path, ast) ==
    /\ \E result \in {IF canonicalize(disk, path) = None THEN AnyErr
                      ELSE analyze_source(disk, path, ast)} :
        /\ files' = IF result.ok THEN Insert(files, path, result.value) ELSE files
        /\ op' = [name |-> "set_source", path |-> path,
                  result |-> [result EXCEPT !.value = <<>>]]
    /\ UNCHANGED <<instances, diagnostics, disk, last_diagnostics, published, registered, instance,
                   file_scope, declarations, sorted>>
    /\ Atomic

\* AtopileAnalyzer::remove_source.
analyzer_remove_source(path) ==
    /\ files' = IF canonicalize(disk, path) = None THEN files
                ELSE Remove(files, path)
    /\ op' = [name |-> "remove_source", path |-> path,
              result |-> IF canonicalize(disk, path) = None THEN AnyErr
                         ELSE AnyOk(<<>>)]
    /\ UNCHANGED <<instances, diagnostics, disk, last_diagnostics, published, registered, instance,
                   file_scope, declarations, sorted>>
    /\ Atomic

\* AtopileAnalyzer::diagnostics: the unused interfaces of the path.
analyzer_diagnostics(path) ==
    /\ \E call \in {analyze_unused_interfaces(files, disk, path)} :
        /\ files' = call.files
        /\ op' = [name |-> "diagnostics", path |-> path, result |-> call.result]
    /\ UNCHANGED <<instances, diagnostics, disk, last_diagnostics, published, registered, instance,
                   file_scope, declarations, sorted>>
    /\ Atomic

NextUnused ==
    \/ \E ast \in UFiles : analyzer_set_source(FileU, ast)
    \/ analyzer_remove_source(FileU)
    \/ analyzer_diagnostics(FileU)

SpecUnused == InitUnused /\ [][NextUnused]_vars

\* The first block of a name in a file, as a set of at most one block.
Declared(ast, name) ==
    {ast[i] : i \in {j \in DOMAIN ast :
        /\ ast[j].tag = "Block" /\ ast[j].name = name
        /\ \A k \in 1..(j - 1) : ~(ast[k].tag = "Block" /\ ast[k].name = name)}}

\* The statements of a block and of its parent chain, n parents at most.
RECURSIVE Statements(_, _, _)
Statements(ast, block, n) ==
    Range(block.body)
        \cup IF n = 0 \/ block.parent = None THEN {}
             ELSE UNION {Statements(ast, parent, n - 1) :
                            parent \in Declared(ast, block.parent)}

\* The `name = new T` statements among them whose T is of one of the kinds.
NewOf(ast, block, kinds) ==
    {stmt \in Statements(ast, block, Len(ast)) :
        /\ stmt.tag = "Assign" /\ stmt.value.tag = "New" /\ Len(stmt.target) = 1
        /\ \E type \in Declared(ast, stmt.value.text) : type.kind \in kinds}

\* A connection of the block, own or inherited, has an endpoint port
\* reference whose first two segments are m and i.
ConnectedTo(ast, block, m, i) ==
    \E stmt \in Statements(ast, block, Len(ast)) :
        /\ stmt.tag = "Connect"
        /\ \E end \in {stmt.left, stmt.right} :
            /\ end.tag = "Port" /\ Len(end.parts) >= 2
            /\ end.parts[1] = m /\ end.parts[2] = i

\* The pairs (m, i) of the claim for a block.
Unconnected(ast, block) ==
    {<<inst.target[1], iface.target[1]>> :
        <<inst, iface>> \in
            {pair \in UNION {{inst} \X NewOf(ast, type, {"Interface"}) :
                                <<inst, type>> \in
                                    UNION {{inst} \X Declared(ast, inst.value.text) :
                                              inst \in NewOf(ast, block,
                                                             {"Module", "Component"})}} :
                ~ConnectedTo(ast, block, pair[1].target[1], pair[2].target[1])}}

\* The module and component blocks of a file, one for every name.
Analysed(ast) ==
    UNION {Declared(ast, ast[i].name) \cap {b \in Range(ast) : b.kind \in {"Module", "Component"}} :
              i \in {j \in DOMAIN ast : ast[j].tag = "Block"}}

\* The number of warnings reported for (m, i).
Reported(found, m, i) ==
    SumOver({d \in DOMAIN found :
                /\ d.instance_name = <<m>> /\ d.interface_name = <<i>>
                /\ d.severity = "Warning" /\ d.kind = "UnconnectedInterface"},
            found)

\* The source under analysis after a call: the cached one.
UnderAnalysis == files[op.path].file

UPairs == {"a", "b"} \X {"if1", "if2", "if3"}

\* C20: a call of analyze_unused_interfaces that returns its diagnostics
\* reports, for every pair (m, i), one Warning for every module or
\* component block B of the file in which m is an instantiation (own or
\* inherited), i an interface instantiated in the type of m, and no
\* connection of B (own or inherited) has an endpoint port reference that
\* begins with m.i; it reports nothing else.
C20_UnconnectedPairs ==
    (op.name = "diagnostics" /\ op.result.ok) =>
        /\ \A d \in DOMAIN op.result.value :
            <<d.instance_name[1], d.interface_name[1]>> \in UPairs
        /\ \A pair \in UPairs :
            Reported(op.result.value, pair[1], pair[2])
                = Cardinality({block \in Analysed(UnderAnalysis) :
                                  pair \in Unconnected(UnderAnalysis, block)})

\* With the file of the test saved on disk, every call that returns reports
\* the pairs of the claim, whatever the buffer.
ReportsWhenSaved ==
    (FileU \in DOMAIN disk /\ disk[FileU] = USaved) => C20_UnconnectedPairs

(***************************************************************************)
(* `x = new T` in the body of a block.                                     *)
(***************************************************************************)
\* The statement was `x = new T`.
AfterNewStmt == AfterStmtOf("Assign") /\ op.stmt.value.tag = "New"

\* The kept declarations of a name in the file of the open block.
DeclaredAt(name) ==
    {j \in Kept(files[op.path]) : files[op.path][j].name = name}

\* The statement was `x = new T` for a single name x that is no child of
\* the open block yet and a type T that the file declares after the open
\* block, neither inheriting from the other.
ForwardNew ==
    /\ AfterNewStmt
    /\ Len(op.stmt.target) = 1
    /\ op.stmt.target[1] \notin DOMAIN op.before_instance.children
    /\ \E j \in DeclaredAt(op.stmt.value.text) :
           /\ j > op.location
           /\ j \notin CycleOf(files[op.path], op.location)
           /\ op.location \notin CycleOf(files[op.path], j)

\* C21: `x = new T` in a block M, with T declared later in the same file
\* and neither inheriting from the other, produces no diagnostic and M
\* gets the child x, an instance of the store.
C21_ForwardReference ==
    ForwardNew =>
        /\ op.err = Ok
        /\ op.stmt.target[1] \in DOMAIN instance.children
        /\ NewTo \in DOMAIN instances

(***************************************************************************)
(* The import stack and the files in progress.                             *)
(***************************************************************************)
\* The files whose evaluation is in progress when activation i runs.
InProgress(i) == {frames[j].path : j \in 1..i}

\* C22: the import stack an activation hands to evaluate_import holds the
\* path of every file whose evaluation is in progress, the file the pass
\* started from included, and no import starts a nested evaluation of a
\* file whose evaluation is in progress.
C22_StackHoldsFilesInProgress ==
    \A i \in DOMAIN frames :
        /\ \A j \in 1..(i - 1) : frames[j].path # frames[i].path
        /\ InProgress(i) \subseteq Range(frames[i].import_stack)

\* The file the pass started from is evaluated again inside its own
\* evaluation, through the import of a file it imports.
NestedRoot ==
    /\ Len(frames) = 3
    /\ frames[1].path = FileA /\ frames[1].import_stack = <<>>
    /\ frames[2].path = FileB /\ frames[3].path = FileA
    /\ frames[3].import_stack = <<FileB, FileA>>

\* The statement registered the child: no diagnostic, the open block lists
\* the child and the child is in the store.
Registered ==
    /\ op.err = Ok
    /\ op.stmt.target[1] \in DOMAIN instance.children
    /\ NewTo \in DOMAIN instances

\* The statement changed neither the open block nor the store.
NothingChanged == instance = op.before_instance /\ instances = op.before

\* C23: `x = new T` registers the child x exactly when the target is one
\* name, T resolves in the file scope and the block has no child x; it is
\* rejected with InvalidAssignment when the target has more than one
\* segment, with TypeNotFound when T is not in scope and with
\* InvalidAssignment (already exists) when the block has the child x, and
\* every rejection leaves the children of the block and the store as they
\* were.
C23_NewAssignment ==
    AfterNewStmt =>
        /\ Registered <=>
               /\ Len(op.stmt.target) = 1
               /\ scope_resolves(file_scope, op.stmt.value.text)
               /\ op.stmt.target[1] \notin DOMAIN op.before_instance.children
        /\ Len(op.stmt.target) > 1 => op.err.kind = "InvalidAssignment"
        /\ (Len(op.stmt.target) = 1 /\ ~scope_resolves(file_scope, op.stmt.value.text))
               => op.err.kind = "TypeNotFound"
        /\ ( /\ Len(op.stmt.target) = 1
             /\ scope_resolves(file_scope, op.stmt.value.text) ) =>
               (op.err = Err("InvalidAssignment", "already exists")
                    <=> op.stmt.target[1] \in DOMAIN op.before_instance.children)
        /\ op.err # Ok => NothingChanged

\* The rules of C23 hold for every `x = new T` whose type has its root
\* instance in the store; without it the statement ends with an Internal
\* diagnostic and changes nothing.
NewOfBuiltType ==
    AfterNewStmt =>
        IF /\ Len(op.stmt.target) = 1
           /\ scope_resolves(file_scope, op.stmt.value.text)
           /\ op.stmt.target[1] \notin DOMAIN op.before_instance.children
           /\ NewFrom \notin DOMAIN op.before
        THEN op.err.kind = "Internal" /\ NothingChanged
        ELSE C23_NewAssignment

BodyOpen == op.name \in {"block_begin", "evaluate_block_stmt"}

\* C24: while the body of a block is evaluated its root key is absent from
\* the store, so `x = new B` inside B fails with a diagnostic and clones
\* nothing; the step that ends the block puts the checked-out instance back
\* under that key, with everything the body added, and touches no other key.
C24_CheckedOutAndReinserted ==
    /\ [](BodyOpen => OpenRoot \notin DOMAIN instances)
    /\ []( ( /\ AfterNewStmt
             /\ Len(op.stmt.target) = 1
             /\ op.stmt.value.text = op.block.name ) =>
                op.err # Ok /\ NothingChanged )
    /\ [][ BodyOpen /\ ~BodyOpen' =>
              /\ OpenRoot \in DOMAIN instances'
              /\ instances'[OpenRoot] = instance
              /\ \A k \in (DOMAIN instances \cup DOMAIN instances') \ {OpenRoot} :
                     k \in DOMAIN instances /\ k \in DOMAIN instances'
                       /\ instances'[k] = instances[k] ]_vars

\* A block that tried to instantiate itself, kept what its other statements
\* added and is back in the store.
SelfNewReinserted ==
    /\ op.name = "block_end"
    /\ \E i \in DOMAIN op.block.body :
           /\ op.block.body[i] = Assign(<<"m">>, New(op.block.name))
           /\ op.errs[i] # Ok
    /\ OpenRoot \in DOMAIN instances
    /\ \E i \in DOMAIN op.block.body :
           /\ op.errs[i] = Ok
           /\ op.block.body[i].tag = "Assign"
           /\ op.block.body[i].target[1] \in DOMAIN instances[OpenRoot].children

\* Both endpoints of the connection lie in the scope of the instance at ref.
InScope(ref, c) ==
    /\ c.left.module = ref.module
    /\ c.right.module = ref.module
    /\ starts_with(c.left.instance_path, ref.instance_path)
    /\ starts_with(c.right.instance_path, ref.instance_path)

ScopedAt(ref, inst) == \A i \in DOMAIN inst.connections : InScope(ref, inst.connections[i])

\* C25: every Connection in the list of an instance keyed K has both
\* endpoints in K's module and K's path as a prefix of both endpoint paths,
\* whether a connect statement filed it or a clone at any depth produced it.
C25_ConnectionsScoped ==
    /\ \A K \in DOMAIN instances : ScopedAt(K, instances[K])
    /\ BodyOpen => ScopedAt(OpenRoot, instance)

\* A clone two levels below the root of an inheriting block holds a
\* connection.
DeepClonedConnection ==
    /\ op.name = "block_end"
    /\ op.block.parent # None
    /\ \E K \in DOMAIN instances :
           /\ K.module = OpenModule
           /\ Len(K.instance_path) >= 1
           /\ instances[K].connections # <<>>
           /\ \E i \in DOMAIN instances[K].connections :
                  Len(instances[K].connections[i].left.instance_path) >= 2

(***************************************************************************)
(* The LSP backend over the analyzer.  update_source hands the buffer to   *)
(* the analyzer, asks it for all diagnostics and publishes them file by    *)
(* file; did_close removes the source and clears the closed file.  The     *)
(* analyzer behind the backend registers and removes sources in the        *)
(* Evaluator and returns the reporter's diagnostics.                       *)
(***************************************************************************)
\* analyzer.diagnostics(): every diagnostic of the reporter.
analyzer_all_diagnostics(diags) ==
    UNION {{diags[f][i] : i \in DOMAIN diags[f]} : f \in DOMAIN diags}

\* diagnostics.iter().fold(HashMap::new(), |acc, d| acc.entry(d.file).push(d)):
\* the files with a diagnostic, each with its diagnostics in order.
diagnostics_per_file(diags) ==
    [f \in {d.file : d \in analyzer_all_diagnostics(diags)} |->
        SelectSeq(diags[f], LAMBDA d : d.file = f)]

\* The publications of update_source: the files with diagnostics, then an
\* empty list for the files of last_diagnostics without any now.
publish_all(per_file, last) ==
    [f \in DOMAIN per_file \cup last |->
        IF f \in DOMAIN per_file THEN per_file[f] ELSE <<>>]

update_source(path, source) ==
    \E order \in Perms(DOMAIN files \cup {path}) :
    \E ev \in {evaluator_set_source(Evaluator, disk, path, source, order)} :
    \E sent \in {publish_all(diagnostics_per_file(ev.diagnostics), last_diagnostics)} :
        /\ files' = ev.files
        /\ instances' = ev.instances
        /\ diagnostics' = ev.diagnostics
        /\ registered' = registered \cup {path}
        /\ published' = [f \in DOMAIN published \cup DOMAIN sent |->
                           IF f \in DOMAIN sent THEN sent[f] ELSE published[f]]
        /\ last_diagnostics' = DOMAIN diagnostics_per_file(ev.diagnostics)
        /\ op' = [name |-> "update_source", path |-> path, sent |-> sent,
                  client |-> published]
        /\ UNCHANGED <<disk, instance, file_scope, declarations, sorted>>
        /\ Atomic

did_close(path) ==
    \E order \in Perms(DOMAIN files \ {path}) :
    \E ev \in {evaluator_remove_source(Evaluator, disk, path, order)} :
    \E sent \in {(path :> <<>>)} :
        /\ files' = ev.files
        /\ instances' = ev.instances
        /\ diagnostics' = ev.diagnostics
        /\ registered' = registered \ {path}
        /\ published' = [f \in DOMAIN published \cup DOMAIN sent |->
                           IF f \in DOMAIN sent THEN sent[f] ELSE published[f]]
        /\ op' = [name |-> "did_close", path |-> path, sent |-> sent,
                  client |-> published]
        /\ UNCHANGED <<disk, instance, file_scope, declarations, sorted,
                       last_diagnostics>>
        /\ Atomic

NextLsp ==
    \/ \E path \in Paths : \E source \in Sources(path) : update_source(path, source)
    \/ \E path \in registered : did_close(path)

SpecLsp == Init /\ [][NextLsp]_vars

\* The diagnostics the client shows for a file.
Shown(client, f) == IF f \in DOMAIN client THEN client[f] ELSE <<>>

\* The analyzer's current diagnostics for a file.
Current(f) == IF f \in DOMAIN diagnostics THEN diagnostics[f] ELSE <<>>

Handled == op.name \in {"update_source", "did_close"}

PublishedAfterUpdateSource ==
    op.name = "update_source" =>
        \A f \in Paths :
            /\ (Shown(op.client, f) # <<>> /\ Current(f) = <<>>) =>
                   (f \in DOMAIN op.sent /\ op.sent[f] = <<>>)
            /\ Shown(published, f) = Current(f)

\* An update cleared a file that showed diagnostics.
ClearedByUpdate ==
    /\ op.name = "update_source"
    /\ \E f \in Paths : Shown(op.client, f) # <<>> /\ op.sent[f] = <<>>

\* K.path without its last symbol, in K's module.
ParentKey(K) == InstanceRef(K.module, SubSeq(K.instance_path, 1, Len(K.instance_path) - 1))

\* The parent of K is in the store and lists K under its last symbol.
Listed(store, K) ==
    /\ ParentKey(K) \in DOMAIN store
    /\ K.instance_path[Len(K.instance_path)] \in DOMAIN store[ParentKey(K)].children
    /\ store[ParentKey(K)].children[K.instance_path[Len(K.instance_path)]] = K

Orphans(store) == {K \in DOMAIN store : K.instance_path # <<>> /\ ~Listed(store, K)}

\* The last block of the file has been put back: the pass over it is over.
PassOver == op.name = "block_end" /\ Len(op.evaluated) = Len(sorted)

\* C27: at the end of a pass every instance with a non-empty path is listed
\* by the instance at its parent key, under the last symbol of its path.
C27_StoreMatchesChildren == PassOver => Orphans(instances) = {}

\* C28: the root instance of an evaluated block has the kind its own
\* declaration names, also when the block inherits from a parent declared
\* with another kind.
C28_RootKindDeclared ==
    op.name = "block_end" =>
        instances[OpenRoot].kind = InstanceKindOf(op.block.kind)

\* C29: the files of the Evaluator are the ones the host registered with
\* set_source and has not removed: a pass, with the imports it loads, adds
\* none, so a file only reached through an import is no root of a later
\* pass.
C29_OnlyHostRegisters == DOMAIN files = registered

FailedConnect == AfterStmtOf("Connect") /\ op.err # Ok

\* C30: a connect statement that ends with a diagnostic leaves the graph as
\* it was: no instance created or replaced, no child registered on the
\* block, no Connection appended anywhere.
C30_FailedConnectChangesNothing == FailedConnect => NothingChanged

\* The endpoints of the statement that declare a Port or a Pin.
DeclaringEnds == {c \in {op.stmt.left, op.stmt.right} : c.tag \in {"Signal", "Pin"}}

DeclaredNames == {c.parts[1] : c \in DeclaringEnds}

DeclaredKeys == {InstanceRef(OpenModule, <<n>>) : n \in DeclaredNames}

\* A failed connect statement appended no Connection to any instance.
FailedConnectAppendsNothing ==
    \A ref \in Holders :
        ConnectionsOf(instances, instance, ref) =
            ConnectionsOf(op.before, op.before_instance, ref)

\* C30, amended: a connect statement that ends with a diagnostic appends no
\* Connection and changes nothing but what its signal and pin endpoints declare: each is a
\* fresh Port or Pin at its key, registered as a child of the block.
C30_FailedConnectKeepsDeclarations ==
    FailedConnect =>
        /\ FailedConnectAppendsNothing
        /\ DOMAIN instances = DOMAIN op.before \cup DeclaredKeys
        /\ \A K \in DOMAIN instances \ DeclaredKeys : instances[K] = op.before[K]
        /\ \A c \in DeclaringEnds :
               /\ instances[InstanceRef(OpenModule, <<c.parts[1]>>)] =
                      (IF c.tag = "Signal" THEN InstancePort ELSE InstancePin)
               /\ c.parts[1] \in DOMAIN instance.children
               /\ instance.children[c.parts[1]] = InstanceRef(OpenModule, <<c.parts[1]>>)
        /\ \A n \in DOMAIN instance.children \ DeclaredNames :
               /\ n \in DOMAIN op.before_instance.children
               /\ instance.children[n] = op.before_instance.children[n]
        /\ DOMAIN op.before_instance.children \subseteq DOMAIN instance.children
        /\ instance.attributes = op.before_instance.attributes
        /\ instance.kind = op.before_instance.kind

\* `signal s ~ x` failed on the kinds of its endpoints and s stayed declared.
DeclaredThenFailed ==
    /\ FailedConnect
    /\ op.err.kind = "InvalidAssignment"
    /\ op.stmt.left.tag = "Signal"
    /\ op.stmt.left.parts[1] \notin DOMAIN op.before_instance.children
    /\ op.stmt.left.parts[1] \in DOMAIN instance.children

====
